---- MODULE Spec2Model ----
(***************************************************************************)
(* A model of the game engine of the repository: the combat encounter of   *)
(* app/core/encounter.py (class Encounter, class Combatant), the dice of   *)
(* app/core/dice.py, the characters of app/core/character.py, the session  *)
(* log and its records of app/core/session.py, and the turn queue of       *)
(* app/adapters/discord_adapter.py.                                        *)
(*                                                                         *)
(* Python objects are modelled as a heap: `heap[id]` is the Combatant      *)
(* object with identity `id`; the lists `combatants` and `turn_order` hold *)
(* identities, so a mutation of a Combatant is seen through both lists, as *)
(* in the source.  Character objects live in `characters`, keyed by name.  *)
(***************************************************************************)
EXTENDS Integers, Sequences, FiniteSets, TLC

\* ---------------------------------------------------------------- bounds
\* Largest roster the model registers.
MaxCombatants == 2
\* Longest combat log the model lets grow; every logging operation is
\* disabled once its lines would not fit, which bounds the run length.
MaxLog == 7
\* Longest combat log at which attack and cast_spell still act (they log one
\* line per outcome; start_combat, next_turn and end_combat go on to MaxLog).
MaxCombatLog == 5
\* Roster size of the specification that starts from a registered roster.
RosterSize == 3

\* Lines of combat log followed for the roster of RoundsRoster combatants,
\* whose rounds need a longer log than MaxLog.
MaxRoundsLog == 15
\* Longest story log the model lets a session grow.
MaxHistory == 6

\* Experience a character collects in a run of the model.
MaxExperience == 3000

\* Handler tasks started in the channel in a run of the model.
MaxActions == 3

\* ---------------------------------------------------------------- inputs
\* Outcomes of DiceRoller.d20() that the model draws (a sample of 1..20 that
\* contains a tie, a value equal to an armor class and a value below it).
D20Faces == {5, 15}

\* Dice notations handed to attack / cast_spell.
Notations == {"1d2", "1d1-2", "sword"}

\* (health, armor_class) arguments of add_enemy / add_npc.
EnemyInputs == {[health |-> 2, armor_class |-> 15]}

\* Names of the Character objects a caller can hand to add_player.  The same
\* Character may be handed to add_player more than once.
CharacterNames == {"hero"}

\* Effect dicts handed to cast_spell: effect["type"], and the notation
\* stored under the key of that type (effect["damage"] or effect["healing"]).
Effects ==
    {[type |-> ty, notation |-> n] : ty \in {"damage", "healing"}, n \in Notations}
      \cup {[type |-> "buff", notation |-> "1d2"]}

\* Event kinds handed to add_story_event.
EventTypes == {"dm_response", "player_action", "dice_roll", "system"}

\* Free text of actions and responses.
Contents == {"look"}

\* Dice results handed to add_player_action.
DiceResults == {[description |-> "1d20", total |-> 15]}

\* Personality tags handed to add_dm_response ("None": no tag).
Personalities == {"None", "serious"}

\* Encounter names handed to GameSession.start_combat.
EncounterNames == {"Goblin Fight"}

\* Locations the adapter assigns to current_location.
Locations == {"forest"}

\* last_n arguments of get_context.
LastN == 1..3


VARIABLES
    combatants,          \* Encounter.combatants: list of Combatant identities
    turn_order,          \* Encounter.turn_order
    current_turn_index,  \* Encounter.current_turn_index
    round_number,        \* Encounter.round_number
    is_active,           \* Encounter.is_active
    combat_log,          \* Encounter.combat_log
    heap,                \* the Combatant objects, by identity
    characters,          \* the Character objects, by name
    result,              \* outcome of the last call: "ok", "error" (a result
                         \* dict carrying an "error" key) or "raised"; for
                         \* save_session / load_session the value returned,
                         \* "True" or "False"
    session,             \* the GameSession object: its attributes
    session_file,        \* the durable record at GameSession.session_file
    game,                \* the DiscordGameSession of the channel: turn_queue,
                         \* current_turn_index, is_active
    handlers             \* the handler coroutines started in the channel, in
                         \* order of arrival: where each one stands

vars == <<combatants, turn_order, current_turn_index, round_number, is_active,
          combat_log, heap, characters, result, session, session_file,
          game, handlers>>

session_vars == <<session, session_file>>

adapter_vars == <<game, handlers>>

encounter_vars == <<combatants, turn_order, current_turn_index, round_number,
                    is_active, combat_log, heap>>

\* ---------------------------------------------------------------- dice.py

\* re.match(r'^(\d+)d(\d+)([+-]\d+)?$', ...) on the notations of the model,
\* followed by the int() conversions of the groups.
parse_notation(s) ==
    CASE s = "1d2"   -> [match |-> TRUE,  count |-> 1, sides |-> 2, modifier |-> 0]
      [] s = "1d1-2" -> [match |-> TRUE,  count |-> 1, sides |-> 1, modifier |-> 0 - 2]
      [] OTHER       -> [match |-> FALSE, count |-> 0, sides |-> 0, modifier |-> 0]

\* A roll that accepts zero dice and zero sides.
roll_raises_below_zero(sides, count) == sides < 0 \/ count < 0

\* DiceRoller.roll raises ValueError when sides < 1 or count < 1.
roll_raises(sides, count) == sides < 1 \/ count < 1

\* The totals DiceRoller.roll(sides, count, modifier) can return:
\* sum of count values of randint(1, sides), plus modifier.
roll_totals(sides, count, modifier) ==
    {t + modifier : t \in count .. (count * sides)}

\* A parse_and_roll that takes every string for a notation.
parse_and_roll_accepts_all(s) == FALSE

\* DiceRoller.parse_and_roll raises ValueError (no match, or roll raises).
parse_and_roll_raises(s) ==
    LET p == parse_notation(s)
    IN  ~p.match \/ roll_raises(p.sides, p.count)

\* The totals DiceRoller.parse_and_roll(s) can return when it does not raise.
parse_and_roll_totals(s) ==
    LET p == parse_notation(s)
    IN  roll_totals(p.sides, p.count, p.modifier)

\* ------------------------------------------- dice.py, character by character
\* A dice string is the sequence of its characters.  The characters the
\* strings of the model are made of:
Digits == {"0", "1", "2", "3", "4", "5", "6", "7", "8", "9"}

\* The characters str.strip() removes from both ends.
Whitespace == {" ", "\t", "\n"}

\* A strip() that removes nothing.
strip_nothing(s) == s

\* str.strip(): leading and trailing whitespace removed.
RECURSIVE strip(_)
strip(s) ==
    IF s = <<>> THEN s
    ELSE IF Head(s) \in Whitespace THEN strip(Tail(s))
    ELSE IF s[Len(s)] \in Whitespace THEN strip(SubSeq(s, 1, Len(s) - 1))
    ELSE s

\* str.lower() on the letters of the model.
lower(s) == [i \in 1..Len(s) |-> CASE s[i] = "D" -> "d"
                                   [] s[i] = "S" -> "s"
                                   [] OTHER      -> s[i]]

\* str.replace(" ", ""): every space character removed, other whitespace kept.
replace_spaces(s) ==
    LET Kept(ch) == ch # " "
    IN  SelectSeq(s, Kept)

\* dice_string.strip().lower().replace(" ", "")
normalized(dice_string) == replace_spaces(lower(strip(dice_string)))

\* Length of the longest prefix of digits: what a greedy \d+ takes.
RECURSIVE leading_digits(_)
leading_digits(s) ==
    IF s = <<>> \/ Head(s) \notin Digits THEN 0
    ELSE 1 + leading_digits(Tail(s))

\* The value of one digit character.
digit_value(ch) ==
    CASE ch = "0" -> 0 [] ch = "1" -> 1 [] ch = "2" -> 2 [] ch = "3" -> 3
      [] ch = "4" -> 4 [] ch = "5" -> 5 [] ch = "6" -> 6 [] ch = "7" -> 7
      [] ch = "8" -> 8 [] ch = "9" -> 9

\* int() of a string of digits.
RECURSIVE int_of_digits(_)
int_of_digits(s) ==
    IF s = <<>> THEN 0
    ELSE 10 * int_of_digits(SubSeq(s, 1, Len(s) - 1)) + digit_value(s[Len(s)])

\* int() of group 3: a sign followed by digits.
int_of_signed(s) ==
    IF Head(s) = "-" THEN 0 - int_of_digits(Tail(s)) ELSE int_of_digits(Tail(s))

\* No match of the pattern.
NoMatch == [match |-> FALSE, count |-> 0, sides |-> 0, modifier |-> 0]

\* re.match(r'^(\d+)d(\d+)([+-]\d+)?$', s) and the int() conversions of its
\* groups; the modifier is 0 when group 3 is absent.
match_pattern(s) ==
    LET n1 == leading_digits(s)
        r1 == SubSeq(s, n1 + 1, Len(s))
        r2 == Tail(r1)
        n2 == leading_digits(r2)
        r3 == SubSeq(r2, n2 + 1, Len(r2))
    IN  IF n1 = 0 \/ r1 = <<>> THEN NoMatch
        ELSE IF Head(r1) # "d" THEN NoMatch
        ELSE IF n2 = 0 THEN NoMatch
        ELSE IF r3 = <<>>
             THEN [match |-> TRUE,
                   count |-> int_of_digits(SubSeq(s, 1, n1)),
                   sides |-> int_of_digits(SubSeq(r2, 1, n2)),
                   modifier |-> 0]
        ELSE IF /\ Head(r3) \in {"+", "-"}
                /\ Len(r3) >= 2
                /\ leading_digits(Tail(r3)) = Len(r3) - 1
             THEN [match |-> TRUE,
                   count |-> int_of_digits(SubSeq(s, 1, n1)),
                   sides |-> int_of_digits(SubSeq(r2, 1, n2)),
                   modifier |-> int_of_signed(r3)]
        ELSE NoMatch

\* sum(rolls)
RECURSIVE sum(_)
sum(rolls) == IF rolls = <<>> THEN 0 ELSE Head(rolls) + sum(Tail(rolls))

\* The lists [random.randint(1, sides) for _ in range(count)] can be.
roll_lists(sides, count) == [1..count -> 1..sides]

\* The dict DiceRoller.roll returns for the list rolls, without its
\* description text.
roll_result(sides, count, modifier, rolls) ==
    [rolls    |-> rolls,
     modifier |-> modifier,
     total    |-> sum(rolls) + modifier,
     sides    |-> sides,
     count    |-> count]

\* ValueError("Sides and count must be positive integers")
InvalidDice == [raised |-> "ValueError", message |-> "Sides and count must be positive integers"]

\* ValueError(f"Invalid dice format: {dice_string}. ..."), with the string
\* as it is after strip, lower and replace.
InvalidDiceNotation(dice_string) ==
    [raised |-> "ValueError", message |-> "Invalid dice format", dice_string |-> dice_string]

\* ---------------------------------------------------------------- Combatant

Min(a, b) == IF a <= b THEN a ELSE b
Max(a, b) == IF a >= b THEN a ELSE b

Contains(seq, x) == \E i \in 1..Len(seq) : seq[i] = x

\* list.remove(x): drops the first occurrence of x.
RECURSIVE RemoveFirst(_, _)
RemoveFirst(seq, x) ==
    IF seq = <<>> THEN <<>>
    ELSE IF Head(seq) = x THEN Tail(seq)
    ELSE <<Head(seq)>> \o RemoveFirst(Tail(seq), x)

\* Combatant.take_damage: the Combatant after the call.
take_damage(c, damage) ==
    LET actual_damage == Min(damage, c.health)
        new_health    == c.health - actual_damage
    IN  IF new_health <= 0
        THEN [c EXCEPT !.health = new_health,
                       !.is_conscious = FALSE,
                       !.conditions = IF Contains(c.conditions, "unconscious")
                                      THEN c.conditions
                                      ELSE Append(c.conditions, "unconscious")]
        ELSE [c EXCEPT !.health = new_health]

\* Combatant.heal: the Combatant after the call.
heal(c, healing) ==
    LET new_health == Min(c.max_health, c.health + healing)
    IN  IF new_health > 0 /\ ~c.is_conscious
        THEN [c EXCEPT !.health = new_health,
                       !.is_conscious = TRUE,
                       !.conditions = IF Contains(c.conditions, "unconscious")
                                      THEN RemoveFirst(c.conditions, "unconscious")
                                      ELSE c.conditions]
        ELSE [c EXCEPT !.health = new_health]

\* Combatant.from_character: a player Combatant copying the Character's stats.
from_character(name) ==
    [combatant_type |-> "player",
     health         |-> characters[name].health,
     max_health     |-> characters[name].max_health,
     armor_class    |-> characters[name].armor_class,
     initiative     |-> 0,
     character      |-> name,
     is_conscious   |-> TRUE,
     conditions     |-> characters[name].conditions]

\* Combatant(...) as built by add_enemy / add_npc: max_health = health,
\* dataclass defaults for the rest.
new_combatant(type, health, armor_class) ==
    [combatant_type |-> type,
     health         |-> health,
     max_health     |-> health,
     armor_class    |-> armor_class,
     initiative     |-> 0,
     character      |-> "none",
     is_conscious   |-> TRUE,
     conditions     |-> <<>>]

\* ---------------------------------------------------------------- session.py
\* The GameSession object of app/core/session.py and its durable record.  The
\* clock is not part of the state: StoryEvent.timestamp, created_at and
\* last_saved are left out, and so is the constant session_id.

\* Dict.get(key, default) on a JSON object.
get(data, key, default) == IF key \in DOMAIN data THEN data[key] ELSE default

\* The empty dict {}.
EmptyDict == [k \in {} |-> k]

\* The None handed for an absent metadata or dice_result argument.
None == [python |-> "None"]

\* StoryEvent.create(event_type, content, metadata): `metadata or {}`.
StoryEvent(event_type, content, metadata) ==
    [event_type |-> event_type,
     content    |-> content,
     metadata   |-> IF metadata = None THEN EmptyDict ELSE metadata]

\* GameSession.__init__: the attributes of a new session.
new_session ==
    [story_history     |-> <<>>,
     current_location  |-> "Starting Village",
     active_npcs       |-> <<>>,
     current_scene     |-> "",
     session_notes     |-> <<>>,
     turn_count        |-> 0,
     in_combat         |-> FALSE,
     current_encounter |-> "None"]

\* The states of the path session_file: no file, a file that is not JSON, a
\* file holding a JSON array, a file holding a JSON object.
NoFile      == [kind |-> "missing"]
NotJsonFile == [kind |-> "text"]
ArrayFile   == [kind |-> "array"]
ObjectFile(data) == [kind |-> "object", data |-> data]

\* asdict(event) as a JSON value.
event_json(event) ==
    [json |-> "object",
     fields |-> [event_type |-> event.event_type,
                 content    |-> event.content,
                 metadata   |-> event.metadata]]

\* [asdict(event) for event in story_history]
history_json(story_history) ==
    [i \in 1..Len(story_history) |-> event_json(story_history[i])]

\* A session_data that leaves out the combat flag.
session_data_without_combat(s) ==
    [turn_count        |-> s.turn_count,
     current_location  |-> s.current_location,
     active_npcs       |-> s.active_npcs,
     current_scene     |-> s.current_scene,
     session_notes     |-> s.session_notes,
     current_encounter |-> s.current_encounter,
     story_history     |-> history_json(s.story_history)]

\* The dict session_data that save_session dumps.
session_data(s) ==
    [turn_count        |-> s.turn_count,
     current_location  |-> s.current_location,
     active_npcs       |-> s.active_npcs,
     current_scene     |-> s.current_scene,
     session_notes     |-> s.session_notes,
     in_combat         |-> s.in_combat,
     current_encounter |-> s.current_encounter,
     story_history     |-> history_json(s.story_history)]

\* The file save_session leaves (open(..., 'w') and json.dump succeed: the
\* values of the model are all serialisable and the directory is writable).
saved_file(s) == ObjectFile(session_data(s))

\* An add that puts the new event in front of the list.
appended_in_front(s, event) ==
    [s EXCEPT !.story_history = <<event>> \o @,
              !.turn_count = @ + 1]

\* self.story_history.append(event); self.turn_count += 1
appended(s, event) ==
    [s EXCEPT !.story_history = Append(@, event),
              !.turn_count = @ + 1]

\* An autosave on every second turn.
autosave_due_every_second(turn_count) == turn_count % 2 = 0

\* `if self.turn_count % 3 == 0`
autosave_due(turn_count) == turn_count % 3 = 0

\* GameSession.add_story_event on the pair st = (session object, file):
\* the pair after the call, the autosave included.
after_add_story_event(st, event_type, content, metadata) ==
    LET s == appended(st.session, StoryEvent(event_type, content, metadata))
    IN  [session |-> s,
         file    |-> IF autosave_due(s.turn_count) THEN saved_file(s) ELSE st.file]

\* f"{dice_result.get('description', 'dice roll')}: {dice_result.get('total', 0)}"
dice_description(dice_result) ==
    LET description == get(dice_result, "description", "dice roll")
        total       == get(dice_result, "total", 0)
    IN  CASE description = "1d20" /\ total = 15      -> "1d20: 15"
          [] description = "dice roll" /\ total = 15 -> "dice roll: 15"
          [] OTHER                                   -> "dice roll: 0"

\* An add_player_action that records the roll before the action.
after_add_player_action_roll_first(st, action, dice_result) ==
    LET metadata == IF dice_result # None
                    THEN [dice_result |-> dice_result]
                    ELSE EmptyDict
    IN  IF dice_result # None
        THEN after_add_story_event(
                 after_add_story_event(st, "dice_roll",
                                       dice_description(dice_result), dice_result),
                 "player_action", action, metadata)
        ELSE after_add_story_event(st, "player_action", action, metadata)

\* GameSession.add_player_action on the pair st.
after_add_player_action(st, action, dice_result) ==
    LET metadata == IF dice_result # None
                    THEN [dice_result |-> dice_result]
                    ELSE EmptyDict
        first    == after_add_story_event(st, "player_action", action, metadata)
    IN  IF dice_result # None
        THEN after_add_story_event(first, "dice_roll",
                                   dice_description(dice_result), dice_result)
        ELSE first

\* GameSession.add_dm_response on the pair st.
after_add_dm_response(st, response, personality) ==
    LET metadata == IF personality # "None"
                    THEN [personality |-> personality]
                    ELSE EmptyDict
    IN  after_add_story_event(st, "dm_response", response, metadata)

\* f"Combat started: {encounter_name}" / f"Combat ended: {encounter_name}"
combat_line(what, encounter_name) ==
    CASE what = "started" /\ encounter_name = "Goblin Fight" -> "Combat started: Goblin Fight"
      [] what = "ended" /\ encounter_name = "Goblin Fight"   -> "Combat ended: Goblin Fight"
      [] OTHER                                               -> "Combat ended: Unknown encounter"

\* GameSession.start_combat on the pair st.
after_start_combat(st, encounter_name) ==
    after_add_story_event(
        [st EXCEPT !.session.in_combat = TRUE,
                   !.session.current_encounter = encounter_name],
        "system", combat_line("started", encounter_name), None)

\* GameSession.end_combat on the pair st.
after_end_combat(st) ==
    IF st.session.in_combat
    THEN LET encounter_name == IF st.session.current_encounter # "None"
                               THEN st.session.current_encounter
                               ELSE "Unknown encounter"
         IN  after_add_story_event(
                 [st EXCEPT !.session.in_combat = FALSE,
                            !.session.current_encounter = "None"],
                 "system", combat_line("ended", encounter_name), None)
    ELSE st

\* ', '.join(self.active_npcs)
join_npcs(active_npcs) ==
    CASE active_npcs = <<"Elder">>          -> "Elder"
      [] active_npcs = <<"Elder", "Smith">> -> "Elder, Smith"
      [] OTHER                              -> ""

\* One line of the context, f"{label}: {text}"; the blank separator line has
\* neither label nor text, the status line has no text after the colon.
ContextLine(label, text) == [label |-> label, text |-> text]

\* The header lines of get_context.
context_header(s) ==
    (IF s.current_location # ""
       THEN <<ContextLine("Current Location", s.current_location)>> ELSE <<>>)
    \o (IF s.current_scene # ""
       THEN <<ContextLine("Current Scene", s.current_scene)>> ELSE <<>>)
    \o (IF s.active_npcs # <<>>
       THEN <<ContextLine("Active NPCs", join_npcs(s.active_npcs))>> ELSE <<>>)
    \o (IF s.in_combat
       THEN <<ContextLine("Status", "Currently in combat")>> ELSE <<>>)
    \o <<ContextLine("", "")>>

\* The if / elif chain of get_context: the lines one event contributes.
event_lines(event) ==
    CASE event.event_type = "dm_response"   -> <<ContextLine("DM", event.content)>>
      [] event.event_type = "player_action" -> <<ContextLine("Player", event.content)>>
      [] event.event_type = "dice_roll"     -> <<ContextLine("Roll", event.content)>>
      [] event.event_type = "system"        -> <<ContextLine("System", event.content)>>
      [] OTHER                              -> <<>>

\* The lines of the events, in list order.
RECURSIVE events_lines(_)
events_lines(events) ==
    IF events = <<>> THEN <<>>
    ELSE event_lines(Head(events)) \o events_lines(Tail(events))

\* A window on the oldest events, story_history[:last_n].
recent_events_oldest(story_history, last_n) ==
    SubSeq(story_history, 1, Min(last_n, Len(story_history)))

\* self.story_history[-last_n:] for last_n >= 1
recent_events(story_history, last_n) ==
    SubSeq(story_history, Max(1, Len(story_history) - last_n + 1), Len(story_history))

\* GameSession.get_context(last_n): the lines of the string returned (no
\* line at all for the empty string).
context_lines(s, last_n) ==
    IF s.story_history = <<>> THEN <<>>
    ELSE context_header(s) \o events_lines(recent_events(s.story_history, last_n))

\* StoryEvent(...) built from one JSON object of the record's story_history.
event_of_json(fields) ==
    [event_type |-> get(fields, "event_type", "unknown"),
     content    |-> get(fields, "content", ""),
     metadata   |-> get(fields, "metadata", EmptyDict)]

\* The list the loop of load_session builds: event_data.get raises on the
\* first entry that is not a JSON object and the loop stops there.
RECURSIVE loaded_events(_)
loaded_events(entries) ==
    IF entries = <<>> THEN <<>>
    ELSE IF Head(entries).json # "object" THEN <<>>
    ELSE <<event_of_json(Head(entries).fields)>> \o loaded_events(Tail(entries))

\* The loop of load_session raises (AttributeError: no .get on the entry).
load_loop_raises(entries) == \E i \in 1..Len(entries) : entries[i].json # "object"

\* A load that keeps the turn count the session had before.
loaded_session_keeping_count(s, data) ==
    [story_history     |-> loaded_events(get(data, "story_history", <<>>)),
     current_location  |-> get(data, "current_location", "Starting Village"),
     active_npcs       |-> get(data, "active_npcs", <<>>),
     current_scene     |-> get(data, "current_scene", ""),
     session_notes     |-> get(data, "session_notes", <<>>),
     turn_count        |-> s.turn_count,
     in_combat         |-> get(data, "in_combat", FALSE),
     current_encounter |-> get(data, "current_encounter", "None")]

\* The session attributes after the assignments of load_session.
loaded_session(s, data) ==
    [story_history     |-> loaded_events(get(data, "story_history", <<>>)),
     current_location  |-> get(data, "current_location", "Starting Village"),
     active_npcs       |-> get(data, "active_npcs", <<>>),
     current_scene     |-> get(data, "current_scene", ""),
     session_notes     |-> get(data, "session_notes", <<>>),
     turn_count        |-> get(data, "turn_count", 0),
     in_combat         |-> get(data, "in_combat", FALSE),
     current_encounter |-> get(data, "current_encounter", "None")]

\* load_session returns True: the file holds a JSON object and the loop over
\* its story_history does not raise.
load_succeeds(file) ==
    /\ file.kind = "object"
    /\ ~load_loop_raises(get(file.data, "story_history", <<>>))

\* The session attributes after load_session on the file: untouched when
\* open or json.load raise or the value has no .get, assigned otherwise
\* (also when the loop raises afterwards).
after_load_session(s, file) ==
    IF file.kind = "object" THEN loaded_session(s, file.data) ELSE s


\* The session object and its file, as the pair the operations act on.
session_pair == [session |-> session, file |-> session_file]

\* GameSession.add_story_event(event_type, content, metadata)
add_story_event(event_type, content, metadata) ==
    /\ Len(session.story_history) + 1 <= MaxHistory
    /\ result' = "ok"
    /\ UNCHANGED <<encounter_vars, adapter_vars, characters>>
    /\ LET st == after_add_story_event(session_pair, event_type, content, metadata)
       IN  /\ session' = st.session
           /\ session_file' = st.file

\* GameSession.add_player_action(action, dice_result)
add_player_action(action, dice_result) ==
    /\ Len(session.story_history) + (IF dice_result # None THEN 2 ELSE 1) <= MaxHistory
    /\ result' = "ok"
    /\ UNCHANGED <<encounter_vars, adapter_vars, characters>>
    /\ LET st == after_add_player_action(session_pair, action, dice_result)
       IN  /\ session' = st.session
           /\ session_file' = st.file

\* GameSession.add_dm_response(response, personality)
add_dm_response(response, personality) ==
    /\ Len(session.story_history) + 1 <= MaxHistory
    /\ result' = "ok"
    /\ UNCHANGED <<encounter_vars, adapter_vars, characters>>
    /\ LET st == after_add_dm_response(session_pair, response, personality)
       IN  /\ session' = st.session
           /\ session_file' = st.file

\* GameSession.start_combat(encounter_name)
session_start_combat(encounter_name) ==
    /\ Len(session.story_history) + 1 <= MaxHistory
    /\ result' = "ok"
    /\ UNCHANGED <<encounter_vars, adapter_vars, characters>>
    /\ LET st == after_start_combat(session_pair, encounter_name)
       IN  /\ session' = st.session
           /\ session_file' = st.file

\* GameSession.end_combat()
session_end_combat ==
    \/ /\ ~session.in_combat
       /\ result' = "ok"
       /\ UNCHANGED <<encounter_vars, adapter_vars, characters, session_vars>>
    \/ /\ session.in_combat
       /\ Len(session.story_history) + 1 <= MaxHistory
       /\ LET st == after_end_combat(session_pair)
          IN  /\ session' = st.session
              /\ session_file' = st.file
       /\ result' = "ok"
       /\ UNCHANGED <<encounter_vars, adapter_vars, characters>>

\* `self.session.current_location = location` of the adapter.
set_current_location(location) ==
    /\ session' = [session EXCEPT !.current_location = location]
    /\ result' = "ok"
    /\ UNCHANGED <<encounter_vars, adapter_vars, characters, session_file>>

\* GameSession.save_session()
save_session ==
    /\ session_file' = saved_file(session)
    /\ result' = "True"
    /\ UNCHANGED <<encounter_vars, adapter_vars, characters, session>>

\* The statements of save_session that can raise: open(session_file, 'w')
\* (the path cannot be written) and json.dump (a value is not serialisable,
\* the disk is full).
SaveSteps == {"open", "json.dump"}

\* The file a failed save_session leaves: untouched when open raised, cut off
\* inside the JSON text (open(..., 'w') has emptied it) when json.dump raised.
file_after_failed_save(file, step) ==
    IF step = "open" THEN file ELSE NotJsonFile

\* GameSession.save_session() when `step` raises: the except branch prints
\* and returns False.
save_session_raises(step) ==
    /\ session_file' = file_after_failed_save(session_file, step)
    /\ result' = "False"
    /\ UNCHANGED <<encounter_vars, adapter_vars, characters, session>>

\* GameSession.load_session()
load_session ==
    \/ /\ load_succeeds(session_file)
       /\ session' = after_load_session(session, session_file)
       /\ result' = "True"
       /\ UNCHANGED <<encounter_vars, adapter_vars, characters, session_file>>
    \/ /\ ~load_succeeds(session_file)
       /\ session' = after_load_session(session, session_file)
       /\ result' = "False"
       /\ UNCHANGED <<encounter_vars, adapter_vars, characters, session_file>>

\* GameSession.get_context(last_n): returns context_lines(session, last_n).
get_context(last_n) ==
    /\ result' = "ok"
    /\ UNCHANGED <<encounter_vars, adapter_vars, characters, session_vars>>

\* ------------------------------------------------------- discord_adapter.py
\* The users in the turn queue of the channel's game, in joining order.
DiscordUsers == <<"ann", "bob">>

\* Texts of the actions the players send: "open" holds one of the
\* dice_keywords of the adapter, "look" holds none.
ActionTexts == {"look", "open"}

\* any(keyword in action_lower for keyword in dice_keywords)
has_dice_keyword(action) == action = "open"

\* f"{display_name}: {action}"
player_line(user, action) ==
    CASE user = "ann" /\ action = "look" -> "ann: look"
      [] user = "ann" /\ action = "open" -> "ann: open"
      [] user = "bob" /\ action = "look" -> "bob: look"
      [] user = "bob" /\ action = "open" -> "bob: open"

\* game.dm.generate_response(context, action, dice_result): the narrative the
\* generator returns for an action.
generate_response(action) ==
    CASE action = "look" -> "You see a door."
      [] action = "open" -> "The door opens."

\* game.dm.personality, chosen at /begin.
dm_personality == "serious"

\* DiscordGameSession.__init__: no players, not begun.
new_game == [turn_queue |-> <<>>, current_turn_index |-> 0, is_active |-> FALSE]

\* DiscordGameSession.get_current_player
get_current_player(g) ==
    IF g.turn_queue = <<>> \/ ~g.is_active
    THEN "None"
    ELSE g.turn_queue[g.current_turn_index + 1]

\* DiscordGameSession.next_turn: the game after the call.
game_next_turn(g) ==
    IF g.turn_queue # <<>>
    THEN [g EXCEPT !.current_turn_index = (g.current_turn_index + 1) % Len(g.turn_queue)]
    ELSE g

\* A handler coroutine suspended at the await named pc ("done": returned).
Handler(kind, user, action, dice_result, pc) ==
    [kind |-> kind, user |-> user, action |-> action,
     dice_result |-> dice_result, pc |-> pc]

\* Where a handler stands after add_dm_response and game.next_turn(): at the
\* await of the "it's your turn" notice when the turn went to someone else.
after_turn_advance(g, user) ==
    IF get_current_player(g) # "None" /\ get_current_player(g) # user
    THEN "notify"
    ELSE "done"

\* DnDBot.on_message for a player's text, up to the first await of
\* handle_game_action: a text sent out of turn goes to process_commands and
\* changes nothing; with a dice keyword the d20 is rolled and its reply
\* awaited; otherwise the action is added to the session, the narrative is
\* generated and the reply of the embed awaited.
on_message(user, action) ==
    /\ Len(handlers) < MaxActions
    /\ \/ /\ ~(game.is_active /\ user = get_current_player(game))
          /\ UNCHANGED vars
       \/ /\ game.is_active /\ user = get_current_player(game)
          /\ has_dice_keyword(action)
          /\ \E dice_result \in DiceResults :
                handlers' = Append(handlers,
                                   Handler("message", user, action, dice_result, "reply_roll"))
          /\ UNCHANGED <<encounter_vars, characters, result, session_vars, game>>
       \/ /\ game.is_active /\ user = get_current_player(game)
          /\ ~has_dice_keyword(action)
          /\ handlers' = Append(handlers,
                                Handler("message", user, action, None, "reply_embed"))
          /\ UNCHANGED <<encounter_vars, characters, result, game>>
          /\ LET st == after_add_player_action(session_pair, player_line(user, action), None)
             IN  /\ session' = st.session
                 /\ session_file' = st.file

\* handle_game_action resumed after one of its awaits.
handle_game_action(h) ==
    /\ handlers[h].kind = "message"
    /\ \/ /\ handlers[h].pc = "reply_roll"
          /\ handlers' = [handlers EXCEPT ![h].pc = "reply_embed"]
          /\ UNCHANGED <<encounter_vars, characters, result, game>>
          /\ LET st == after_add_player_action(session_pair,
                                               player_line(handlers[h].user, handlers[h].action),
                                               handlers[h].dice_result)
             IN  /\ session' = st.session
                 /\ session_file' = st.file
       \/ /\ handlers[h].pc = "reply_embed"
          /\ game' = game_next_turn(game)
          /\ handlers' = [handlers EXCEPT
                             ![h].pc = after_turn_advance(game_next_turn(game), handlers[h].user)]
          /\ UNCHANGED <<encounter_vars, characters, result>>
          /\ LET st == after_add_dm_response(session_pair,
                                             generate_response(handlers[h].action),
                                             dm_personality)
             IN  /\ session' = st.session
                 /\ session_file' = st.file
       \/ /\ handlers[h].pc = "notify"
          /\ handlers' = [handlers EXCEPT ![h].pc = "done"]
          /\ UNCHANGED <<encounter_vars, characters, result, session_vars, game>>

\* The /action command up to its first await: refused with a message when
\* the game has not begun or it is not the user's turn; otherwise the d20 is
\* rolled for a dice keyword, the action is added to the session and the
\* deferral of the response awaited.
take_action(user, description) ==
    /\ Len(handlers) < MaxActions
    /\ \/ /\ ~game.is_active \/ user # get_current_player(game)
          /\ UNCHANGED vars
       \/ /\ game.is_active /\ user = get_current_player(game)
          /\ \E dice_result \in IF has_dice_keyword(description)
                                THEN DiceResults ELSE {None} :
                /\ handlers' = Append(handlers,
                                      Handler("command", user, description, dice_result, "defer"))
                /\ LET st == after_add_player_action(session_pair,
                                                     player_line(user, description),
                                                     dice_result)
                   IN  /\ session' = st.session
                       /\ session_file' = st.file
          /\ UNCHANGED <<encounter_vars, characters, result, game>>

\* take_action resumed after one of its awaits.
take_action_resumed(h) ==
    /\ handlers[h].kind = "command"
    /\ \/ /\ handlers[h].pc = "defer"
          /\ handlers' = [handlers EXCEPT ![h].pc = "followup"]
          /\ UNCHANGED <<encounter_vars, characters, result, session_vars, game>>
       \/ /\ handlers[h].pc = "followup"
          /\ game' = game_next_turn(game)
          /\ handlers' = [handlers EXCEPT
                             ![h].pc = after_turn_advance(game_next_turn(game), handlers[h].user)]
          /\ UNCHANGED <<encounter_vars, characters, result>>
          /\ LET st == after_add_dm_response(session_pair,
                                             generate_response(handlers[h].action),
                                             dm_personality)
             IN  /\ session' = st.session
                 /\ session_file' = st.file
       \/ /\ handlers[h].pc = "notify"
          /\ handlers' = [handlers EXCEPT ![h].pc = "done"]
          /\ UNCHANGED <<encounter_vars, characters, result, session_vars, game>>

\* ---------------------------------------------------------------- Encounter

\* The cap on the lines of combat log the model follows: `bound`, or
\* MaxRoundsLog for the larger roster whose rounds are followed.
log_cap(bound) == IF Len(combatants) > RosterSize THEN MaxRoundsLog ELSE bound

\* Encounter.log_action: the log with one line appended.  A line
\* f"[Round {round_number}] {action}" is kept as its round tag; the free
\* text of the action is not part of the state.
log_action(log, round, action) == Append(log, round)

Init ==
    /\ combatants = <<>>
    /\ turn_order = <<>>
    /\ current_turn_index = 0
    /\ round_number = 0
    /\ is_active = FALSE
    /\ combat_log = <<>>
    /\ heap = <<>>
    /\ characters = [n \in CharacterNames |->
                       [health |-> 2, max_health |-> 2, armor_class |-> 12,
                        conditions |-> <<"poisoned">>, temporary_hp |-> 0]]
    /\ result = "ok"
    /\ session = new_session
    /\ game = new_game
    /\ handlers = <<>>
    /\ session_file = NoFile

\* The roster after Encounter.add_combatant(c), c being heap[id].
roster_with(roster, id) == Append(roster, id)

\* Encounter.add_combatant with a newly built Combatant object c.
add_combatant(c) ==
    /\ Len(heap) < MaxCombatants
    /\ heap' = Append(heap, c)
    /\ combatants' = roster_with(combatants, Len(heap) + 1)
    /\ result' = "ok"
    /\ UNCHANGED <<session_vars, adapter_vars>>
    /\ UNCHANGED <<turn_order, current_turn_index, round_number, is_active,
                   combat_log, characters>>

add_player(name) == add_combatant(from_character(name))

add_enemy(health, armor_class) == add_combatant(new_combatant("enemy", health, armor_class))

add_npc(health, armor_class) == add_combatant(new_combatant("npc", health, armor_class))

\* A sort that reverses the order of equal keys (an ascending sort followed
\* by a reversal): an element goes before the elements of equal initiative.
insert_position_reversing_ties(sorted, id, h) ==
    Cardinality({i \in 1..Len(sorted) : h[sorted[i]].initiative > h[id].initiative})

\* sorted(..., reverse=True) keeps equal keys in their original order, so an
\* element goes after every element whose initiative is >= its own.
insert_position(sorted, id, h) ==
    Cardinality({i \in 1..Len(sorted) : h[sorted[i]].initiative >= h[id].initiative})

\* One step of the sort: id placed into the already sorted prefix.
insert_sorted(sorted, id, h) ==
    LET k == insert_position(sorted, id, h)
    IN  SubSeq(sorted, 1, k) \o <<id>> \o SubSeq(sorted, k + 1, Len(sorted))

\* sorted(self.combatants, key=lambda c: c.initiative, reverse=True)
RECURSIVE sorted_by_initiative(_, _)
sorted_by_initiative(roster, h) ==
    IF roster = <<>> THEN <<>>
    ELSE insert_sorted(sorted_by_initiative(SubSeq(roster, 1, Len(roster) - 1), h),
                       roster[Len(roster)], h)

\* The heap after the loop of roll_initiative: the combatant at roster
\* position i gets initiative inits[i].
heap_with_initiative(inits) ==
    [id \in 1..Len(heap) |->
        IF \E i \in 1..Len(combatants) : combatants[i] = id
        THEN LET i == CHOOSE j \in 1..Len(combatants) :
                        /\ combatants[j] = id
                        /\ \A k \in 1..Len(combatants) : combatants[k] = id => k <= j
             IN  [heap[id] EXCEPT !.initiative = inits[i]]
        ELSE heap[id]]

\* The log after roll_initiative: one line per combatant, then the order line.
RECURSIVE log_initiative(_, _, _)
log_initiative(log, round, n) ==
    IF n = 0 THEN log
    ELSE log_action(log_initiative(log, round, n - 1), round, "rolled initiative")

\* start_combat without its guard.
start_combat_unguarded == FALSE

\* The guard of start_combat: `if not self.combatants: raise ValueError`.
start_combat_raises == combatants = <<>>

\* A turn order that leaves out the combatants unconscious at the start.
turn_order_of_conscious(h) ==
    LET Test(id) == h[id].is_conscious
    IN  SelectSeq(sorted_by_initiative(combatants, h), Test)

\* The turn order roll_initiative builds from the rolled initiatives.
turn_order_after_roll(h) == sorted_by_initiative(combatants, h)

\* Encounter.start_combat (with roll_initiative inlined).
start_combat ==
    \/ /\ start_combat_raises
       /\ result' = "raised"
       /\ UNCHANGED <<session_vars, adapter_vars>>
       /\ UNCHANGED <<encounter_vars, characters>>
    \/ /\ ~start_combat_raises
       /\ Len(combat_log) + Len(combatants) + 2 <= log_cap(MaxLog)
       /\ result' = "ok"
       /\ UNCHANGED <<session_vars, adapter_vars>>
       /\ UNCHANGED <<combatants, characters>>
       /\ current_turn_index' = 0
       /\ is_active' = TRUE
       /\ round_number' = 1
       /\ combat_log' =
            log_action(
              log_action(log_initiative(combat_log, round_number, Len(combatants)),
                         round_number, "Initiative order"),
              1, "Combat started")
       /\ \E inits \in [1..Len(combatants) -> D20Faces] :
            LET h == heap_with_initiative(inits)
            IN  /\ heap' = h
                /\ turn_order' = turn_order_after_roll(h)

\* A side count that takes the npc allies for players.
conscious_of_type_with_allies(roster, h, type) ==
    LET Test(id) ==
            /\ h[id].is_conscious
            /\ \/ h[id].combatant_type = type
               \/ (type = "player" /\ h[id].combatant_type = "npc")
    IN  SelectSeq(roster, Test)

\* [c for c in roster if c.combatant_type == type and c.is_conscious]
conscious_of_type(roster, h, type) ==
    LET Test(id) == h[id].combatant_type = type /\ h[id].is_conscious
    IN  SelectSeq(roster, Test)

\* Encounter.should_end_combat, on a roster and the objects it refers to.
should_end_combat(roster, h) ==
    \/ Len(conscious_of_type(roster, h, "player")) = 0
    \/ Len(conscious_of_type(roster, h, "enemy")) = 0

\* The outcome line end_combat logs.
outcome_line(roster, h) ==
    LET conscious_players == conscious_of_type(roster, h, "player")
        conscious_enemies == conscious_of_type(roster, h, "enemy")
    IN  IF Len(conscious_players) > 0 /\ Len(conscious_enemies) = 0 THEN "Victory"
        ELSE IF Len(conscious_players) = 0 THEN "Defeat"
        ELSE "Combat ended"

\* A sync that copies the health and forgets the conditions.
sync_one_health_only(chs, c) ==
    IF c.character # "none"
    THEN [chs EXCEPT ![c.character].health = c.health]
    ELSE chs

\* One iteration of the sync loop of end_combat, for the combatant c.
sync_one(chs, c) ==
    IF c.character # "none"
    THEN [chs EXCEPT ![c.character].health = c.health,
                     ![c.character].conditions = c.conditions]
    ELSE chs

\* The sync loop of end_combat: `for combatant in self.combatants`, in order.
RECURSIVE sync_characters(_, _, _)
sync_characters(chs, roster, h) ==
    IF roster = <<>> THEN chs
    ELSE sync_characters(sync_one(chs, h[Head(roster)]), Tail(roster), h)

\* A sync of the characters that leaves the combat running.
end_combat_effect_sync_only(round, log) ==
    /\ is_active' = is_active
    /\ combat_log' = log_action(log, round, outcome_line(combatants, heap))
    /\ characters' = sync_characters(characters, combatants, heap)

\* The variables end_combat writes, given the round and log at the call.
end_combat_effect(round, log) ==
    /\ is_active' = FALSE
    /\ combat_log' = log_action(log, round, outcome_line(combatants, heap))
    /\ characters' = sync_characters(characters, combatants, heap)

\* Encounter.end_combat
end_combat ==
    /\ Len(combat_log) + 1 <= log_cap(MaxLog)
    /\ end_combat_effect(round_number, combat_log)
    /\ result' = "ok"
    /\ UNCHANGED <<session_vars, adapter_vars>>
    /\ UNCHANGED <<combatants, turn_order, current_turn_index, round_number, heap>>

\* [c for c in self.turn_order if c.is_conscious]
conscious_only(order, h) ==
    LET Test(id) == h[id].is_conscious
    IN  SelectSeq(order, Test)

\* Encounter.get_current_combatant: the list index raises IndexError when it
\* lies outside -len..len-1.
get_current_combatant_raises ==
    /\ is_active
    /\ turn_order # <<>>
    /\ \/ current_turn_index >= Len(turn_order)
       \/ current_turn_index < 0 - Len(turn_order)

\* Encounter.get_current_combatant, when it raises nothing: None, or the
\* identity at the current index (a negative index counts from the end).
get_current_combatant ==
    IF ~is_active \/ turn_order = <<>>
    THEN None
    ELSE IF current_turn_index >= 0
         THEN turn_order[current_turn_index + 1]
         ELSE turn_order[Len(turn_order) + current_turn_index + 1]

\* A test that lets the index reach the length of the turn order.
round_over_late(index, order) == index > Len(order)

\* if self.current_turn_index >= len(self.turn_order), after the increment
round_over(index, order) == index >= Len(order)

\* Encounter.next_turn
next_turn ==
    \/ /\ ~is_active
       /\ result' = "ok"
       /\ UNCHANGED <<session_vars, adapter_vars>>
       /\ UNCHANGED <<encounter_vars, characters>>
    \/ /\ is_active
       /\ ~round_over(current_turn_index + 1, turn_order)
       /\ current_turn_index' = current_turn_index + 1
       /\ result' = "ok"
       /\ UNCHANGED <<session_vars, adapter_vars>>
       /\ UNCHANGED <<combatants, turn_order, round_number, is_active, combat_log,
                      heap, characters>>
    \/ /\ is_active
       /\ round_over(current_turn_index + 1, turn_order)
       /\ current_turn_index' = 0
       /\ round_number' = round_number + 1
       /\ turn_order' = conscious_only(turn_order, heap)
       /\ IF should_end_combat(combatants, heap)
          THEN /\ Len(combat_log) + 2 <= log_cap(MaxLog)
               /\ end_combat_effect(round_number + 1,
                                    log_action(combat_log, round_number + 1, "Round begins"))
          ELSE /\ Len(combat_log) + 1 <= log_cap(MaxLog)
               /\ combat_log' = log_action(combat_log, round_number + 1, "Round begins")
               /\ UNCHANGED <<is_active, characters>>
       /\ result' = "ok"
       /\ UNCHANGED <<session_vars, adapter_vars>>
       /\ UNCHANGED <<combatants, heap>>

\* An attack that checks the attacker only.
attack_refused_attacker_only(a, t) == ~heap[a].is_conscious

\* The soft failure of attack: attacker or target unconscious.
attack_refused(a, t) == ~heap[a].is_conscious \/ ~heap[t].is_conscious

\* The log after a hit of `damage` that leaves the target as `target`.
log_hit(log, round, target) ==
    IF ~target.is_conscious
    THEN log_action(log_action(log, round, "hits"), round, "falls unconscious")
    ELSE log_action(log, round, "hits")

\* A hit test that needs the roll to exceed the armor class.
hits_strictly(attack_total, armor_class) == attack_total > armor_class

\* hits = attack_total >= target.armor_class
hits(attack_total, armor_class) == attack_total >= armor_class

\* Encounter.attack(attacker, target, weapon_damage) when DiceRoller.d20()
\* returns attack_total (the roll is not drawn when the attack is refused).
attack_rolled(a, t, weapon_damage, attack_total) ==
    \/ /\ attack_refused(a, t)
       /\ result' = "error"
       /\ UNCHANGED <<session_vars, adapter_vars>>
       /\ UNCHANGED <<encounter_vars, characters>>
    \/ /\ ~attack_refused(a, t)
       /\ ~hits(attack_total, heap[t].armor_class)
       /\ Len(combat_log) + 1 <= log_cap(MaxCombatLog)
       /\ result' = "ok"
       /\ UNCHANGED <<session_vars, adapter_vars>>
       /\ UNCHANGED <<combatants, turn_order, current_turn_index, round_number,
                      is_active, heap, characters>>
       /\ combat_log' = log_action(combat_log, round_number, "misses")
    \/ /\ ~attack_refused(a, t)
       /\ hits(attack_total, heap[t].armor_class)
       /\ parse_and_roll_raises(weapon_damage)
       /\ result' = "error"
       /\ UNCHANGED <<session_vars, adapter_vars>>
       /\ UNCHANGED <<encounter_vars, characters>>
    \/ /\ ~attack_refused(a, t)
       /\ hits(attack_total, heap[t].armor_class)
       /\ ~parse_and_roll_raises(weapon_damage)
       /\ result' = "ok"
       /\ UNCHANGED <<session_vars, adapter_vars>>
       /\ UNCHANGED <<combatants, turn_order, current_turn_index, round_number,
                      is_active, characters>>
       /\ \E total \in parse_and_roll_totals(weapon_damage) :
            LET damage == Max(1, total)
                target == take_damage(heap[t], damage)
            IN  /\ Len(log_hit(combat_log, round_number, target)) <= log_cap(MaxCombatLog)
                /\ heap' = [heap EXCEPT ![t] = target]
                /\ combat_log' = log_hit(combat_log, round_number, target)

\* Encounter.attack(attacker, target, weapon_damage)
attack(a, t, weapon_damage) ==
    \E attack_total \in D20Faces : attack_rolled(a, t, weapon_damage, attack_total)

\* The soft failure of cast_spell: caster unconscious.
cast_refused(caster) == ~heap[caster].is_conscious

\* The heap after the loop of cast_spell has handled targets[1..i], the
\* roll for targets[j] totalling rolls[j].
RECURSIVE heap_after_spell(_, _, _, _, _)
heap_after_spell(h, targets, type, rolls, i) ==
    IF i = 0 THEN h
    ELSE LET before == heap_after_spell(h, targets, type, rolls, i - 1)
             t == targets[i]
         IN  IF type = "damage"
             THEN [before EXCEPT ![t] = take_damage(before[t], rolls[i])]
             ELSE [before EXCEPT ![t] = heal(before[t], rolls[i])]

\* A log that gets one line per call, whatever the number of targets.
log_spell_once(log, round, type, n) ==
    log_action(log, round, IF type = "damage" THEN "casts for damage" ELSE "casts healing")

\* The log after the loop of cast_spell: one line per target.
RECURSIVE log_spell(_, _, _, _)
log_spell(log, round, type, n) ==
    IF n = 0 THEN log
    ELSE log_action(log_spell(log, round, type, n - 1), round,
                    IF type = "damage" THEN "casts for damage" ELSE "casts healing")

\* Target lists handed to cast_spell: none, one or two combatants.
TargetLists ==
    {<<>>} \cup {<<t>> : t \in 1..Len(heap)}
           \cup {<<p[1], p[2]>> : p \in {q \in (1..Len(heap)) \X (1..Len(heap)) : q[1] < q[2]}}

\* Encounter.cast_spell(caster, spell_name, targets, effect)
cast_spell(caster, targets, effect) ==
    \/ /\ cast_refused(caster)
       /\ result' = "error"
       /\ UNCHANGED <<session_vars, adapter_vars>>
       /\ UNCHANGED <<encounter_vars, characters>>
    \/ /\ ~cast_refused(caster)
       /\ targets = <<>> \/ effect.type \notin {"damage", "healing"}
       /\ result' = "ok"
       /\ UNCHANGED <<session_vars, adapter_vars>>
       /\ UNCHANGED <<encounter_vars, characters>>
    \/ /\ ~cast_refused(caster)
       /\ targets # <<>> /\ effect.type \in {"damage", "healing"}
       /\ parse_and_roll_raises(effect.notation)
       /\ result' = "raised"
       /\ UNCHANGED <<session_vars, adapter_vars>>
       /\ UNCHANGED <<encounter_vars, characters>>
    \/ /\ ~cast_refused(caster)
       /\ targets # <<>> /\ effect.type \in {"damage", "healing"}
       /\ ~parse_and_roll_raises(effect.notation)
       /\ Len(combat_log) + Len(targets) <= log_cap(MaxCombatLog)
       /\ combat_log' = log_spell(combat_log, round_number, effect.type, Len(targets))
       /\ \E rolls \in [1..Len(targets) -> parse_and_roll_totals(effect.notation)] :
            heap' = heap_after_spell(heap, targets, effect.type, rolls, Len(targets))
       /\ result' = "ok"
       /\ UNCHANGED <<session_vars, adapter_vars>>
       /\ UNCHANGED <<combatants, turn_order, current_turn_index, round_number,
                      is_active, characters>>

Next ==
    \/ \E n \in CharacterNames : add_player(n)
    \/ \E e \in EnemyInputs : add_enemy(e.health, e.armor_class)
    \/ \E e \in EnemyInputs : add_npc(e.health, e.armor_class)
    \/ start_combat
    \/ next_turn
    \/ end_combat
    \/ \E a \in 1..Len(heap), t \in 1..Len(heap), n \in Notations : attack(a, t, n)
    \/ \E c \in 1..Len(heap), targets \in TargetLists, effect \in Effects :
         cast_spell(c, targets, effect)

Spec == Init /\ [][Next]_vars

\* The Combatant objects the add operations of the model build.
NewCombatants ==
    {from_character(n) : n \in CharacterNames}
      \cup {new_combatant("enemy", e.health, e.armor_class) : e \in EnemyInputs}
      \cup {new_combatant("npc", e.health, e.armor_class) : e \in EnemyInputs}

\* The encounter after RosterSize add calls on a new Encounter.
InitRoster ==
    /\ characters = [n \in CharacterNames |->
                       [health |-> 2, max_health |-> 2, armor_class |-> 12,
                        conditions |-> <<"poisoned">>, temporary_hp |-> 0]]
    /\ heap \in [1..RosterSize -> NewCombatants]
    /\ combatants = [i \in 1..RosterSize |-> i]
    /\ turn_order = <<>>
    /\ current_turn_index = 0
    /\ round_number = 0
    /\ is_active = FALSE
    /\ combat_log = <<>>
    /\ result = "ok"
    /\ session = new_session
    /\ game = new_game
    /\ handlers = <<>>
    /\ session_file = NoFile

\* The operations that change who is conscious, on a registered roster.
NextRoster ==
    \/ \E a \in 1..Len(heap), t \in 1..Len(heap), n \in Notations : attack(a, t, n)
    \/ \E c \in 1..Len(heap), t \in 1..Len(heap), effect \in Effects :
         cast_spell(c, <<t>>, effect)

SpecRoster == InitRoster /\ [][NextRoster]_vars

\* ---------------------------------------------------------------- sessions
\* The durable records a session can find at its path when it is created:
\* none, a file that is not JSON, a JSON array, a record whose story_history
\* holds an entry that is not an object, and the record of an earlier run.
InitialFiles ==
    {NoFile, NotJsonFile, ArrayFile,
     ObjectFile([turn_count |-> 1,
                 current_location |-> "forest",
                 story_history |-> <<event_json(StoryEvent("system", "look", None)),
                                     [json |-> "number"]>>]),
     ObjectFile([turn_count |-> 1,
                 current_location |-> "forest",
                 active_npcs |-> <<"Elder", "Smith">>,
                 current_scene |-> "market",
                 in_combat |-> TRUE,
                 story_history |-> <<event_json(StoryEvent("dm_response", "look", None))>>])}

\* A new GameSession next to a new Encounter.
InitSession ==
    /\ combatants = <<>>
    /\ turn_order = <<>>
    /\ current_turn_index = 0
    /\ round_number = 0
    /\ is_active = FALSE
    /\ combat_log = <<>>
    /\ heap = <<>>
    /\ characters = [n \in CharacterNames |->
                       [health |-> 2, max_health |-> 2, armor_class |-> 12,
                        conditions |-> <<"poisoned">>, temporary_hp |-> 0]]
    /\ result = "ok"
    /\ session = new_session
    /\ game = new_game
    /\ handlers = <<>>
    /\ session_file \in InitialFiles

\* The operations of the session.
NextSession ==
    \/ \E t \in EventTypes, c \in Contents : add_story_event(t, c, None)
    \/ \E a \in Contents, d \in DiceResults \cup {None} : add_player_action(a, d)
    \/ \E r \in Contents, p \in Personalities : add_dm_response(r, p)
    \/ \E n \in EncounterNames : session_start_combat(n)
    \/ session_end_combat
    \/ \E l \in Locations : set_current_location(l)
    \/ save_session
    \/ load_session
    \/ \E n \in LastN : get_context(n)

SpecSession == InitSession /\ [][NextSession]_vars

\* A new session with no record at its path.
InitFresh ==
    /\ InitSession
    /\ session_file = NoFile

\* The operations that append to the story log.
NextFresh ==
    \/ \E t \in EventTypes, c \in Contents : add_story_event(t, c, None)
    \/ \E a \in Contents, d \in DiceResults \cup {None} : add_player_action(a, d)
    \/ \E r \in Contents, p \in Personalities : add_dm_response(r, p)
    \/ \E n \in EncounterNames : session_start_combat(n)
    \/ session_end_combat

SpecFresh == InitFresh /\ [][NextFresh]_vars

\* ------------------------------------------------------------ character.py
\* Classes and constitution scores of the characters created; temporary hit
\* points handed to the constructor; amounts of damage and healing; awards of
\* experience.
CharacterClasses == {"fighter", "wizard"}
Constitutions == {1, 10, 14}
TemporaryHp == {0, 3}
Amounts == {0, 1, 2, 5}
XpAwards == {0, 400, 1000, 2000}

\* Character.get_modifier: (score - 10) // 2, rounding down.
get_modifier(score) == (score - 10) \div 2

\* The hit_dice table of Character._calculate_starting_hp.
hit_dice(character_class) ==
    CASE character_class = "fighter" -> 10
      [] character_class = "wizard"  -> 6
      [] OTHER                       -> 8

\* Character._calculate_starting_hp
calculate_starting_hp(character_class, constitution) ==
    Max(1, hit_dice(character_class) + get_modifier(constitution))

\* Character(name, character_class, constitution=..., temporary_hp=...) after
\* __post_init__: max_health and health from the class and constitution,
\* armor_class from the default dexterity of 10.
new_character(character_class, constitution, temporary_hp) ==
    [character_class |-> character_class,
     level           |-> 1,
     experience      |-> 0,
     constitution    |-> constitution,
     health          |-> calculate_starting_hp(character_class, constitution),
     max_health      |-> calculate_starting_hp(character_class, constitution),
     armor_class     |-> 10 + get_modifier(10),
     conditions      |-> <<>>,
     temporary_hp    |-> temporary_hp]

\* Damage to health that is not limited by the health left.
health_damage_unbounded(remaining_damage, health) == remaining_damage

\* actual_damage = min(remaining_damage, self.health)
health_damage(remaining_damage, health) == Min(remaining_damage, health)

\* The dict Character.take_damage returns.
take_damage_report(c, damage) ==
    LET temp_damage   == Min(damage, c.temporary_hp)
        actual_damage == health_damage(damage - temp_damage, c.health)
    IN  [damage_taken   |-> damage,
         temp_hp_lost   |-> temp_damage,
         health_lost    |-> actual_damage,
         current_health |-> c.health - actual_damage,
         unconscious    |-> c.health - actual_damage <= 0]

\* Character.take_damage: the Character after the call.
character_after_damage(c, damage) ==
    LET temp_damage   == Min(damage, c.temporary_hp)
        actual_damage == health_damage(damage - temp_damage, c.health)
    IN  [c EXCEPT !.temporary_hp = c.temporary_hp - temp_damage,
                  !.health = c.health - actual_damage]

\* Character.heal: the Character after the call.
character_after_heal(c, healing) ==
    [c EXCEPT !.health = Min(c.max_health, c.health + healing)]

\* The dict Character.heal returns.
heal_report(c, healing) ==
    LET new_health == Min(c.max_health, c.health + healing)
    IN  [healing_attempted |-> healing,
         healing_applied   |-> new_health - c.health,
         current_health    |-> new_health,
         fully_healed      |-> new_health >= c.max_health]

\* Character._level_up: the Character after the call.
level_up(c, old_level, new_level) ==
    LET levels_gained == new_level - old_level
        hp_gain       == levels_gained * (5 + get_modifier(c.constitution))
    IN  [c EXCEPT !.max_health = c.max_health + Max(1, hp_gain),
                  !.health = c.health + hp_gain]

\* Character.gain_experience: the Character after the call.
character_after_experience(c, xp) ==
    LET experience == c.experience + xp
        new_level  == 1 + (experience \div 1000)
    IN  IF new_level > c.level
        THEN level_up([c EXCEPT !.experience = experience, !.level = new_level],
                      c.level, new_level)
        ELSE [c EXCEPT !.experience = experience]

\* Character.take_damage on the character called n.
character_take_damage(n, damage) ==
    /\ characters' = [characters EXCEPT ![n] = character_after_damage(characters[n], damage)]
    /\ result' = take_damage_report(characters[n], damage)
    /\ UNCHANGED <<encounter_vars, session_vars, adapter_vars>>

\* Character.heal on the character called n.
character_heal(n, healing) ==
    /\ characters' = [characters EXCEPT ![n] = character_after_heal(characters[n], healing)]
    /\ result' = heal_report(characters[n], healing)
    /\ UNCHANGED <<encounter_vars, session_vars, adapter_vars>>

\* Character.gain_experience on the character called n; it returns None.
gain_experience(n, xp) ==
    /\ characters[n].experience + xp <= MaxExperience
    /\ characters' = [characters EXCEPT ![n] = character_after_experience(characters[n], xp)]
    /\ result' = None
    /\ UNCHANGED <<encounter_vars, session_vars, adapter_vars>>

\* A newly created character, outside any encounter.
InitCharacter ==
    /\ combatants = <<>>
    /\ turn_order = <<>>
    /\ current_turn_index = 0
    /\ round_number = 0
    /\ is_active = FALSE
    /\ combat_log = <<>>
    /\ heap = <<>>
    /\ characters \in [CharacterNames ->
                         {new_character(cls, con, thp) :
                            cls \in CharacterClasses, con \in Constitutions,
                            thp \in TemporaryHp}]
    /\ result = None
    /\ session = new_session
    /\ game = new_game
    /\ handlers = <<>>
    /\ session_file = NoFile

\* The operations of a Character that change its hit points.
NextCharacter ==
    \/ \E n \in CharacterNames, damage \in Amounts : character_take_damage(n, damage)
    \/ \E n \in CharacterNames, healing \in Amounts : character_heal(n, healing)
    \/ \E n \in CharacterNames, xp \in XpAwards : gain_experience(n, xp)

SpecCharacter == InitCharacter /\ [][NextCharacter]_vars

\* Character.to_dict: asdict(self), the value of every field under its name.
to_dict(c) == [field \in DOMAIN c |-> c[field]]

\* Character.__post_init__ on the fields handed to the constructor: a
\* max_health of 10 is taken for the default and recalculated, health with it;
\* an armor_class of 10 is recalculated from the dexterity (10 by default).
post_init(c) ==
    LET starting_hp == calculate_starting_hp(c.character_class, c.constitution)
    IN  [c EXCEPT !.max_health  = IF c.max_health = 10 THEN starting_hp ELSE @,
                  !.health      = IF c.max_health = 10 THEN starting_hp ELSE @,
                  !.armor_class = IF c.armor_class = 10 THEN 10 + get_modifier(10) ELSE @]

\* Character.from_dict: cls(**data), the dataclass constructor and then
\* __post_init__.
from_dict(data) == post_init([field \in DOMAIN data |-> data[field]])

\* Character.from_dict(c.to_dict()) for the character called n.
round_trip(n) ==
    /\ result' = from_dict(to_dict(characters[n]))
    /\ UNCHANGED <<encounter_vars, session_vars, adapter_vars, characters>>

\* The operations of a Character and its serialisation.
NextSheet ==
    \/ \E n \in CharacterNames, damage \in Amounts : character_take_damage(n, damage)
    \/ \E n \in CharacterNames, healing \in Amounts : character_heal(n, healing)
    \/ \E n \in CharacterNames, xp \in XpAwards : gain_experience(n, xp)
    \/ \E n \in CharacterNames : round_trip(n)

SpecSheet == InitCharacter /\ [][NextSheet]_vars

\* -------------------------------------------------------------------- dice
\* Arguments of DiceRoller.roll.
Sides == -1..3
Counts == -1..3
Modifiers == {-2, 0, 3}

\* Strings handed to DiceRoller.parse_and_roll.
DiceStrings ==
    {<<"2", "d", "6", "+", "3">>,
     <<"1", "d", "2">>,
     <<"2", "d", "2">>,
     <<"1", "d", "1", "-", "2">>,
     <<"0", "1", "d", "2">>,
     <<" ", "1", "D", "2", " ">>,
     <<"1", " ", "d", " ", "2">>,
     <<"\t", "1", "d", "2", "\n">>,
     <<"1", "\t", "d", "2">>,
     <<"1", "d", "2", "\n", "+", "1">>,
     <<"0", "d", "2">>,
     <<"1", "d", "0">>,
     <<"s", "w", "o", "r", "d">>,
     <<"1", "d">>,
     <<"d", "6">>,
     <<"1", "d", "2", "+">>,
     <<"1", "d", "2", "+", "-", "1">>,
     <<"-", "1", "d", "2">>,
     <<>>}

\* DiceRoller.roll(sides, count, modifier)
roll(sides, count, modifier) ==
    /\ UNCHANGED <<encounter_vars, adapter_vars, characters, session_vars>>
    /\ \/ /\ roll_raises(sides, count)
          /\ result' = InvalidDice
       \/ /\ ~roll_raises(sides, count)
          /\ \E rolls \in roll_lists(sides, count) :
                result' = roll_result(sides, count, modifier, rolls)

\* DiceRoller.parse_and_roll(dice_string)
parse_and_roll(dice_string) ==
    LET m == match_pattern(normalized(dice_string))
    IN  \/ /\ ~m.match
           /\ result' = InvalidDiceNotation(normalized(dice_string))
           /\ UNCHANGED <<encounter_vars, adapter_vars, characters, session_vars>>
        \/ /\ m.match
           /\ roll(m.sides, m.count, m.modifier)

\* No roll made yet.
InitDice ==
    /\ combatants = <<>>
    /\ turn_order = <<>>
    /\ current_turn_index = 0
    /\ round_number = 0
    /\ is_active = FALSE
    /\ combat_log = <<>>
    /\ heap = <<>>
    /\ characters = [n \in CharacterNames |->
                       [health |-> 2, max_health |-> 2, armor_class |-> 12,
                        conditions |-> <<"poisoned">>, temporary_hp |-> 0]]
    /\ result = None
    /\ session = new_session
    /\ game = new_game
    /\ handlers = <<>>
    /\ session_file = NoFile

\* The rolls of the dice roller.
NextDice ==
    \/ \E sides \in Sides, count \in Counts, modifier \in Modifiers :
          roll(sides, count, modifier)
    \/ \E dice_string \in DiceStrings : parse_and_roll(dice_string)

SpecDice == InitDice /\ [][NextDice]_vars

\* ------------------------------------------------------------------ spells
\* result["effects"] after the loop of cast_spell: one entry per target, in
\* target order, holding the total rolled for it and the target's health
\* right after that total was applied.
spell_effects(h, targets, type, rolls) ==
    [i \in 1..Len(targets) |->
        [target        |-> targets[i],
         type          |-> type,
         amount        |-> rolls[i],
         target_health |-> heap_after_spell(h, targets, type, rolls, i)[targets[i]].health]]

\* The dict cast_spell returns when the caster is conscious.
spell_result(caster, targets, effects) ==
    [caster |-> caster, targets |-> targets, effects |-> effects]

\* Encounter.cast_spell(caster, spell_name, targets, effect) with the value
\* it returns: the error dict, the result dict, or the ValueError that
\* parse_and_roll raises at the first target.
cast_spell_result(caster, targets, effect) ==
    \/ /\ cast_refused(caster)
       /\ result' = [error |-> "unconscious"]
       /\ UNCHANGED <<session_vars, adapter_vars>>
       /\ UNCHANGED <<encounter_vars, characters>>
    \/ /\ ~cast_refused(caster)
       /\ targets = <<>> \/ effect.type \notin {"damage", "healing"}
       /\ result' = spell_result(caster, targets, <<>>)
       /\ UNCHANGED <<session_vars, adapter_vars>>
       /\ UNCHANGED <<encounter_vars, characters>>
    \/ /\ ~cast_refused(caster)
       /\ targets # <<>> /\ effect.type \in {"damage", "healing"}
       /\ parse_and_roll_raises(effect.notation)
       /\ result' = [raised |-> "ValueError", message |-> "Invalid dice format"]
       /\ UNCHANGED <<session_vars, adapter_vars>>
       /\ UNCHANGED <<encounter_vars, characters>>
    \/ /\ ~cast_refused(caster)
       /\ targets # <<>> /\ effect.type \in {"damage", "healing"}
       /\ ~parse_and_roll_raises(effect.notation)
       /\ Len(combat_log) + Len(targets) <= MaxCombatLog
       /\ combat_log' = log_spell(combat_log, round_number, effect.type, Len(targets))
       /\ \E rolls \in [1..Len(targets) -> parse_and_roll_totals(effect.notation)] :
            /\ heap' = heap_after_spell(heap, targets, effect.type, rolls, Len(targets))
            /\ result' = spell_result(caster, targets,
                                      spell_effects(heap, targets, effect.type, rolls))
       /\ UNCHANGED <<session_vars, adapter_vars>>
       /\ UNCHANGED <<combatants, turn_order, current_turn_index, round_number,
                      is_active, characters>>

\* Target lists of the spells: none, one or two combatants, in either order,
\* the same combatant twice included.
SpellTargetLists ==
    {<<>>} \cup {<<t>> : t \in 1..Len(heap)}
           \cup {<<p[1], p[2]>> : p \in (1..Len(heap)) \X (1..Len(heap))}

\* A player and an enemy, registered, before the first spell.
InitSpell ==
    /\ characters = [n \in CharacterNames |->
                       [health |-> 2, max_health |-> 2, armor_class |-> 12,
                        conditions |-> <<"poisoned">>, temporary_hp |-> 0]]
    /\ heap \in {<<from_character(n), new_combatant("enemy", e.health, e.armor_class)>> :
                    n \in CharacterNames, e \in EnemyInputs}
    /\ combatants = <<1, 2>>
    /\ turn_order = <<>>
    /\ current_turn_index = 0
    /\ round_number = 0
    /\ is_active = FALSE
    /\ combat_log = <<>>
    /\ result = None
    /\ session = new_session
    /\ game = new_game
    /\ handlers = <<>>
    /\ session_file = NoFile

\* Spells cast among the combatants of the roster.
NextSpell ==
    \E c \in 1..Len(heap), targets \in SpellTargetLists, effect \in Effects :
        cast_spell_result(c, targets, effect)

SpecSpell == InitSpell /\ [][NextSpell]_vars

\* ----------------------------------------------------------------- channel
\* A channel whose game has begun with two players: the opening scene is in
\* the story log and the first player is up.
InitDiscord ==
    /\ combatants = <<>>
    /\ turn_order = <<>>
    /\ current_turn_index = 0
    /\ round_number = 0
    /\ is_active = FALSE
    /\ combat_log = <<>>
    /\ heap = <<>>
    /\ characters = [n \in CharacterNames |->
                       [health |-> 2, max_health |-> 2, armor_class |-> 12,
                        conditions |-> <<"poisoned">>, temporary_hp |-> 0]]
    /\ result = "ok"
    /\ session = after_add_dm_response([session |-> new_session, file |-> NoFile],
                                       "The adventure begins.", dm_personality).session
    /\ session_file = NoFile
    /\ game = [turn_queue |-> DiscordUsers, current_turn_index |-> 0, is_active |-> TRUE]
    /\ handlers = <<>>

\* The events of the channel: every arrival starts a handler task, and a
\* suspended handler resumes when its await completes, in any order.
NextDiscord ==
    \/ \E user \in {DiscordUsers[i] : i \in 1..Len(DiscordUsers)}, action \in ActionTexts :
          on_message(user, action)
    \/ \E h \in 1..Len(handlers) : handle_game_action(h)
    \/ \E user \in {DiscordUsers[i] : i \in 1..Len(DiscordUsers)}, action \in ActionTexts :
          take_action(user, action)
    \/ \E h \in 1..Len(handlers) : take_action_resumed(h)

SpecDiscord == InitDiscord /\ [][NextDiscord]_vars

\* ------------------------------------------------ rounds of a larger roster

\* The roster whose rounds are followed: two players and two enemies, so that
\* a combatant can drop out of the turn order without the combat ending.
RoundsRoster == RosterSize + 1

\* The encounter after add_player twice (a Character with 1 hit point),
\* add_enemy(name, 1, armor_class) twice and start_combat on a new Encounter,
\* every d20 of roll_initiative showing 15.
InitRounds ==
    /\ characters = [n \in CharacterNames |->
                       [health |-> 1, max_health |-> 1, armor_class |-> 12,
                        conditions |-> <<>>, temporary_hp |-> 0]]
    /\ combatants = [i \in 1..RoundsRoster |-> i]
    /\ \E n \in CharacterNames, e \in EnemyInputs :
         heap = [i \in 1..RoundsRoster |->
                   [(IF i <= 2 THEN from_character(n)
                     ELSE new_combatant("enemy", 1, e.armor_class))
                    EXCEPT !.initiative = 15]]
    /\ turn_order = turn_order_after_roll(heap)
    /\ current_turn_index = 0
    /\ round_number = 1
    /\ is_active = TRUE
    /\ combat_log = log_action(log_action(log_initiative(<<>>, 0, RoundsRoster),
                                          0, "Initiative order"),
                               1, "Combat started")
    /\ result = "ok"
    /\ session = new_session
    /\ game = new_game
    /\ handlers = <<>>
    /\ session_file = NoFile

\* The spells cast during the rounds: damage and healing.
RoundsEffects ==
    {[type |-> "damage", notation |-> "1d2"], [type |-> "healing", notation |-> "1d2"]}

\* The turns of the started combat and the spells cast during them.
NextRounds ==
    \/ next_turn
    \/ \E c \in 1..Len(heap), t \in 1..Len(heap), effect \in RoundsEffects :
         cast_spell(c, <<t>>, effect)

SpecRounds == InitRounds /\ [][NextRounds]_vars

\* ------------------------------------------------- a session and its records

\* The operations of a session on its own records: the appends, save_session
\* (succeeding or raising inside) and load_session.
NextOwn ==
    \/ \E t \in EventTypes, c \in Contents : add_story_event(t, c, None)
    \/ \E a \in Contents, d \in DiceResults \cup {None} : add_player_action(a, d)
    \/ \E r \in Contents, p \in Personalities : add_dm_response(r, p)
    \/ \E n \in EncounterNames : session_start_combat(n)
    \/ session_end_combat
    \/ save_session
    \/ \E step \in SaveSteps : save_session_raises(step)
    \/ load_session

SpecOwn == InitFresh /\ [][NextOwn]_vars

\* ---------------------------------------------------------------- states
\* The three states of the encounter, read off its fields: round_number is 0
\* until the first start_combat and never returns to 0; after a start only
\* end_combat clears is_active.
Idle   == ~is_active /\ round_number = 0
Active == is_active
Ended  == ~is_active /\ round_number >= 1

\* Some call of each operation, as an action.
AnyAdd ==
    \/ \E n \in CharacterNames : add_player(n)
    \/ \E e \in EnemyInputs : add_enemy(e.health, e.armor_class)
    \/ \E e \in EnemyInputs : add_npc(e.health, e.armor_class)
AnyAttack == \E a \in 1..Len(heap), t \in 1..Len(heap), n \in Notations : attack(a, t, n)
AnyCast ==
    \E c \in 1..Len(heap), targets \in TargetLists, effect \in Effects :
        cast_spell(c, targets, effect)

\* Position of a combatant in the roster (its registration order).
RosterPosition(id) == CHOOSE i \in 1..Len(combatants) : combatants[i] = id

\* ---------------------------------------------------------------- claims

\* C1: once the encounter is Ended, no operation makes it Active again:
\* is_active stays false in every later state.
C1_EndedStaysInactive == [][Ended => ~is_active']_vars

\* C2: the add operations change the roster only while the encounter is
\* Idle: in Idle a call appends exactly one combatant at the end of the
\* roster; in Active or Ended the roster is left unchanged.
C2_AddOnlyInIdle ==
    [][AnyAdd =>
        IF Idle
        THEN /\ Len(combatants') = Len(combatants) + 1
             /\ SubSeq(combatants', 1, Len(combatants)) = combatants
        ELSE combatants' = combatants]_vars

\* C3: start_combat on an empty roster raises and leaves the encounter as it
\* was: inactive, round 0, empty turn order, no line added to the combat log.
C3_StartEmptyRaises ==
    [][(combatants = <<>> /\ start_combat) =>
        /\ result' = "raised"
        /\ UNCHANGED <<encounter_vars, characters>>
        /\ ~is_active' /\ round_number' = 0 /\ turn_order' = <<>>]_vars

\* C3 witness: a start_combat call has raised on an empty, untouched encounter.
C3_Witness ==
    result = "raised" /\ combatants = <<>> /\ combat_log = <<>> /\ ~is_active

\* The order of C4 on a sequence of combatant identities.
StableDescending(order, h) ==
    \A i \in 1..Len(order), j \in 1..Len(order) :
        i < j =>
            \/ h[order[i]].initiative > h[order[j]].initiative
            \/ /\ h[order[i]].initiative = h[order[j]].initiative
               /\ RosterPosition(order[i]) < RosterPosition(order[j])

\* C4: after start_combat the turn order is sorted by initiative, descending,
\* and combatants with equal initiative keep their registration order.
C4_StableDescendingOrder ==
    [][(combatants # <<>> /\ start_combat) => StableDescending(turn_order', heap')]_vars

\* C4 witness: combat has just started with two combatants of equal initiative.
C4_Witness ==
    /\ is_active /\ round_number = 1 /\ current_turn_index = 0
    /\ Len(turn_order) = Len(combatants)
    /\ \E i \in 1..Len(turn_order), j \in 1..Len(turn_order) :
         i < j /\ heap[turn_order[i]].initiative = heap[turn_order[j]].initiative

\* C5: after a successful start_combat on n >= 1 combatants, round is 1, the
\* encounter is active, the turn index is 0 and the turn order has length n
\* and holds every roster combatant exactly once.
C5_StartPostcondition ==
    [][(combatants # <<>> /\ start_combat) =>
        /\ round_number' = 1
        /\ is_active'
        /\ current_turn_index' = 0
        /\ Len(turn_order') = Len(combatants)
        /\ \A i \in 1..Len(combatants) :
             Cardinality({j \in 1..Len(turn_order') : turn_order'[j] = combatants[i]}) = 1]_vars

\* C5 witness: combat has just started on a roster of two.
C5_Witness ==
    /\ result = "ok" /\ is_active /\ round_number = 1 /\ current_turn_index = 0
    /\ Len(combatants) = 2 /\ Len(turn_order) = 2
    /\ combat_log # <<>> /\ combat_log[Len(combat_log)] = 1

\* C6: in an Active encounter the call of next_turn that completes the round
\* (the k-th from turn index 0, k = len(turn_order)) raises round by exactly 1
\* and the calls before it leave round alone; attacks and spells in between
\* move neither the turn index nor the round nor the turn order; after the
\* round is complete no combatant of health 0 or less is in the turn order;
\* the roster is unchanged throughout.
C6_RoundAdvance ==
    [][/\ (is_active /\ next_turn) =>
            /\ combatants' = combatants
            /\ IF current_turn_index + 1 >= Len(turn_order)
               THEN /\ round_number' = round_number + 1
                    /\ \A j \in 1..Len(turn_order') : heap'[turn_order'[j]].health > 0
               ELSE /\ round_number' = round_number
                    /\ current_turn_index' = current_turn_index + 1
       /\ (AnyAttack \/ AnyCast) =>
            UNCHANGED <<combatants, turn_order, current_turn_index, round_number>>]_vars

\* every <type> combatant of the roster is unconscious
AllUnconscious(type, h) ==
    \A i \in 1..Len(combatants) :
        h[combatants[i]].combatant_type = type => ~h[combatants[i]].is_conscious

\* The heap with the consciousness flag of the combatants in S inverted.
WithFlipped(S) ==
    [id \in 1..Len(heap) |->
        IF id \in S THEN [heap[id] EXCEPT !.is_conscious = ~heap[id].is_conscious]
        ELSE heap[id]]

NpcIds == {id \in 1..Len(heap) : heap[id].combatant_type = "npc"}

\* C7: should_end_combat is true exactly when every player-type combatant of
\* the roster is unconscious or every enemy-type combatant is; whether the
\* npc-type combatants are conscious never changes its value.
C7_EndCondition ==
    /\ should_end_combat(combatants, heap)
         = (AllUnconscious("player", heap) \/ AllUnconscious("enemy", heap))
    /\ \A S \in SUBSET NpcIds :
         should_end_combat(combatants, WithFlipped(S)) = should_end_combat(combatants, heap)

\* C7 witness: a fight has left an npc unconscious beside a conscious player
\* and a conscious enemy, and combat should not end.
C7_Witness ==
    /\ combat_log # <<>>
    /\ ~should_end_combat(combatants, heap)
    /\ \E id \in NpcIds : ~heap[id].is_conscious

\* A step in which end_combat runs: called directly, or by next_turn.
EndCombatStep == end_combat \/ (is_active /\ next_turn /\ ~is_active')

\* Roster positions of the combatants whose back-reference is Character n.
LinkedPositions(n) == {i \in 1..Len(combatants) : heap[combatants[i]].character = n}

\* C8 as stated: right after end_combat the encounter is inactive and, for
\* every roster combatant holding a Character back-reference, that
\* Character's health and conditions equal the combatant's.
C8_EveryLinkedCombatantSynced ==
    [][EndCombatStep =>
        /\ ~is_active'
        /\ \A i \in 1..Len(combatants) :
             LET c == heap'[combatants[i]]
             IN  c.character # "none" =>
                   /\ characters'[c.character].health = c.health
                   /\ characters'[c.character].conditions = c.conditions]_vars

\* C8 amended: right after end_combat the encounter is inactive and every
\* Character linked from the roster has the health and conditions of the
\* last roster combatant that references it.
C8_LastLinkedCombatantSynced ==
    [][EndCombatStep =>
        /\ ~is_active'
        /\ \A n \in CharacterNames :
             LinkedPositions(n) # {} =>
               LET last == CHOOSE i \in LinkedPositions(n) :
                               \A k \in LinkedPositions(n) : k <= i
                   c == heap'[combatants[last]]
               IN  /\ characters'[n].health = c.health
                   /\ characters'[n].conditions = c.conditions]_vars

\* C8 witness: a started combat has ended and the sync has written the
\* Character: it carries the health and conditions of its combatant, which
\* fell unconscious in the fight.
C8_Witness ==
    /\ Ended
    /\ \E i \in LinkedPositions("hero") :
         /\ \A k \in LinkedPositions("hero") : k <= i
         /\ ~heap[combatants[i]].is_conscious
         /\ characters["hero"].health = heap[combatants[i]].health
         /\ characters["hero"].conditions = heap[combatants[i]].conditions
         /\ characters["hero"].conditions # <<"poisoned">>

\* C9: once the encounter is Ended, no encounter operation writes the health
\* or the conditions of a linked Character.
C9_NoWriteAfterEnded ==
    [][Ended =>
        \A n \in CharacterNames :
            /\ characters'[n].health = characters[n].health
            /\ characters'[n].conditions = characters[n].conditions]_vars

\* C10: attack with an unconscious attacker or target, and cast_spell with an
\* unconscious caster, return a result carrying an error without raising,
\* and change nothing: no combatant, no log line, no other encounter field.
\* (Every step either returns an error and changes nothing, or is no such
\* call.)
C10_UnconsciousRefused ==
    [][\/ (result' = "error" /\ UNCHANGED <<encounter_vars, characters>>)
       \/ /\ \A a \in 1..Len(heap), t \in 1..Len(heap) :
               (~heap[a].is_conscious \/ ~heap[t].is_conscious) =>
                   ~ \E n \in Notations : attack(a, t, n)
          /\ \A c \in 1..Len(heap) :
               ~heap[c].is_conscious =>
                   ~ \E targets \in TargetLists, effect \in Effects :
                         cast_spell(c, targets, effect)]_vars

\* C10 witness: the last call returned an error in a state where no combatant
\* is conscious, so it was refused for unconsciousness.
C10_Witness ==
    /\ result = "error"
    /\ heap # <<>>
    /\ \A id \in 1..Len(heap) : ~heap[id].is_conscious

\* ---------------------------------------------------------------- C11-C12
\* The notations of the model that match the dice grammar.
WellFormed == {"1d2", "1d1-2"}

\* C11: for an attack between conscious combatants with a well-formed damage
\* notation, the attack hits iff the d20 roll >= the target's armor class; on
\* a hit the damage is max(1, rolled total) and the target's new health is
\* max(0, old health - damage); on a miss the target's health, consciousness
\* and conditions are unchanged.  (A hit on a conscious target always changes
\* the target: it loses health or, at health <= 0, falls unconscious; so the
\* attack has hit exactly when the target changed.  Every step either
\* meets this or is no such attack with that roll.)
C11_AttackContract ==
    [][\A a \in 1..Len(heap), t \in 1..Len(heap) :
          (heap[a].is_conscious /\ heap[t].is_conscious) =>
              \A n \in WellFormed, d \in D20Faces :
                  \/ /\ (heap'[t] # heap[t]) <=> (d >= heap[t].armor_class)
                     /\ (d >= heap[t].armor_class) =>
                           \E total \in parse_and_roll_totals(n) :
                               heap'[t].health =
                                   Max(0, heap[t].health - Max(1, total))
                     /\ (d < heap[t].armor_class) =>
                           /\ heap'[t].health = heap[t].health
                           /\ heap'[t].is_conscious = heap[t].is_conscious
                           /\ heap'[t].conditions = heap[t].conditions
                  \/ ~attack_rolled(a, t, n, d)]_vars

\* C11 witness: the first logged action of an encounter that was never
\* started left an enemy of armor class 15 with 1 of its 2 health points and
\* conscious: a roll of 15 has hit it.
C11_Witness ==
    /\ Idle
    /\ Len(combat_log) = 1
    /\ result = "ok"
    /\ \E id \in 1..Len(heap) :
          /\ heap[id].combatant_type = "enemy"
          /\ heap[id].armor_class = 15
          /\ heap[id].health = 1
          /\ heap[id].is_conscious

\* C12 (as stated): every attack between conscious combatants whose damage
\* notation does not match the dice grammar raises nothing, returns a result
\* carrying an error field, and leaves the target's health unchanged.
C12_MalformedAlwaysError ==
    [][\A a \in 1..Len(heap), t \in 1..Len(heap) :
          (heap[a].is_conscious /\ heap[t].is_conscious) =>
              \A n \in Notations \ WellFormed :
                  attack(a, t, n) =>
                      /\ result' = "error"
                      /\ heap'[t].health = heap[t].health]_vars

\* C12 (amended): such an attack raises nothing and leaves the target's
\* health unchanged; its result carries an error field exactly when the d20
\* roll hits (>= the target's armor class): on a miss the notation is never
\* parsed and the result is the plain miss.
C12_MalformedErrorOnHit ==
    [][\A a \in 1..Len(heap), t \in 1..Len(heap) :
          (heap[a].is_conscious /\ heap[t].is_conscious) =>
              \A n \in Notations \ WellFormed, d \in D20Faces :
                  attack_rolled(a, t, n, d) =>
                      /\ result' # "raised"
                      /\ heap'[t].health = heap[t].health
                      /\ (result' = "error") <=> (d >= heap[t].armor_class)]_vars

\* C12 witness: the last call returned an error although every combatant is
\* conscious: an attack that hit with a malformed notation.
C12_Witness ==
    /\ result = "error"
    /\ heap # <<>>
    /\ \A id \in 1..Len(heap) : heap[id].is_conscious

\* ---------------------------------------------------------------- C13-C20
\* seq is an initial part of longer.
IsPrefix(seq, longer) ==
    /\ Len(seq) <= Len(longer)
    /\ SubSeq(longer, 1, Len(seq)) = seq

\* Some call of an operation that appends to the story log.
AnySessionAdd ==
    \/ \E t \in EventTypes, c \in Contents : add_story_event(t, c, None)
    \/ \E a \in Contents, d \in DiceResults \cup {None} : add_player_action(a, d)
    \/ \E r \in Contents, p \in Personalities : add_dm_response(r, p)
    \/ \E n \in EncounterNames : session_start_combat(n)
    \/ session_end_combat

\* C13: every add_story_event call appends exactly one event at the end of
\* the story log, of the kind and content given, and increments the turn
\* counter by exactly 1; under every add operation the events appended
\* earlier keep their kind, content, metadata and order.
C13_AppendOnly ==
    [][/\ \A t \in EventTypes, c \in Contents :
             add_story_event(t, c, None) =>
                 LET n == Len(session.story_history)
                 IN  /\ Len(session'.story_history) = n + 1
                     /\ session'.story_history[n + 1].event_type = t
                     /\ session'.story_history[n + 1].content = c
                     /\ session'.turn_count = session.turn_count + 1
       /\ \/ IsPrefix(session.story_history, session'.story_history)
          \/ ~AnySessionAdd]_vars

\* C13 witness: two events of different kinds were appended one by one to a
\* new session.
C13_Witness ==
    /\ Len(session.story_history) = 2
    /\ session.turn_count = 2
    /\ session.story_history[1].event_type = "system"
    /\ session.story_history[1].content = "look"
    /\ session.story_history[2].event_type = "dice_roll"
    /\ session.story_history[2].content = "look"

\* C14: in a fresh session the durable record is written exactly on the
\* appends that make the event count a multiple of three: there is no record
\* while fewer than 3 events were appended, and afterwards the record is the
\* one written at the latest multiple of three (its events are the first
\* 3, 6, ... events, its turn counter that count); no other append wrote.
C14_AutosaveEveryThird ==
    LET n == Len(session.story_history)
        k == 3 * (n \div 3)
    IN  /\ session.turn_count = n
        /\ IF n < 3
           THEN session_file = NoFile
           ELSE /\ session_file.kind = "object"
                /\ session_file.data.turn_count = k
                /\ session_file.data.story_history =
                       history_json(SubSeq(session.story_history, 1, k))

\* C14 witness: the sixth append has written the record a second time.
C14_Witness ==
    /\ Len(session.story_history) = 6
    /\ session_file.kind = "object"
    /\ session_file.data.turn_count = 6

\* C15: add_player_action without a dice result appends exactly one
\* player_action event; with a dice result it appends exactly two events,
\* the player_action first and its dice_roll immediately after it.
C15_ActionThenRoll ==
    [][\A a \in Contents :
          LET n == Len(session.story_history)
          IN  /\ add_player_action(a, None) =>
                    /\ Len(session'.story_history) = n + 1
                    /\ IsPrefix(session.story_history, session'.story_history)
                    /\ session'.story_history[n + 1].event_type = "player_action"
                    /\ session'.story_history[n + 1].content = a
              /\ \A d \in DiceResults :
                    add_player_action(a, d) =>
                        /\ Len(session'.story_history) = n + 2
                        /\ IsPrefix(session.story_history, session'.story_history)
                        /\ session'.story_history[n + 1].event_type = "player_action"
                        /\ session'.story_history[n + 1].content = a
                        /\ session'.story_history[n + 2].event_type = "dice_roll"
                        /\ session'.story_history[n + 2].metadata = d]_vars

\* C15 witness: a player_action carrying a dice result is followed at once
\* by its dice_roll, after an earlier event.
C15_Witness ==
    \E i \in 2..(Len(session.story_history) - 1) :
        /\ session.story_history[i].event_type = "player_action"
        /\ "dice_result" \in DOMAIN session.story_history[i].metadata
        /\ session.story_history[i + 1].event_type = "dice_roll"
        /\ session.story_history[i + 1].metadata =
               session.story_history[i].metadata.dice_result

\* C16: get_context on a session with no story events still returns the
\* header: the result contains the line "Current Location: <location>" and,
\* when not in combat, not the combat-status line.
C16_EmptyContextHasHeader ==
    session.story_history = <<>> =>
        \A n \in LastN :
            LET ctx == context_lines(session, n)
            IN  /\ \E i \in 1..Len(ctx) :
                      ctx[i] = ContextLine("Current Location", session.current_location)
                /\ ~session.in_combat =>
                      \A i \in 1..Len(ctx) : ctx[i].label # "Status"

\* The role label of an event kind.
RoleLabel(event_type) ==
    CASE event_type = "dm_response"   -> "DM"
      [] event_type = "player_action" -> "Player"
      [] event_type = "dice_roll"     -> "Roll"
      [] event_type = "system"        -> "System"

RoundTripFields(s) ==
    <<s.turn_count, s.current_location, s.in_combat, s.current_encounter,
      Len(s.story_history), s.story_history>>

\* C18: after save_session, load_session into a new instance with the same
\* path returns True and reproduces turn_count, current_location, the combat
\* flag and encounter name, and the whole event log: same length, and every
\* event's content, event_type and metadata in the original order.
C18_SaveLoadRoundTrip ==
    [][(result' = "True" /\ session' = session /\ save_session) =>
          /\ load_succeeds(session_file')
          /\ RoundTripFields(after_load_session(new_session, session_file'))
                 = RoundTripFields(session)]_vars

\* C18 witness: save_session has just written a session in combat, away from
\* the starting village, whose log holds events with metadata.
C18_Witness ==
    /\ result = "True"
    /\ session_file = saved_file(session)
    /\ session.in_combat
    /\ session.current_encounter = "Goblin Fight"
    /\ session.current_location = "forest"
    /\ Len(session.story_history) = 4
    /\ \E i \in 1..4 : "personality" \in DOMAIN session.story_history[i].metadata

\* C19: whenever load_session reports failure it raises nothing and the
\* session's in-memory state (turn counter, location, scene, NPCs, combat
\* flag, story log) is exactly what it was before the call.
C19_FailedLoadChangesNothing ==
    [][(load_session /\ result' = "False") =>
          /\ session'.turn_count = session.turn_count
          /\ session'.current_location = session.current_location
          /\ session'.current_scene = session.current_scene
          /\ session'.active_npcs = session.active_npcs
          /\ session'.in_combat = session.in_combat
          /\ session'.story_history = session.story_history]_vars

\* C20: the session turn counter never decreases, across any sequence of
\* session operations.
C20_TurnCountMonotonic ==
    [][session'.turn_count >= session.turn_count]_vars

\* ------------------------------------------------------- claims C21 to C30

\* C29: in every reachable state get_current_combatant raises nothing: it
\* returns None when the encounter is inactive or the turn order is empty,
\* and otherwise the entry of turn_order at current_turn_index, which lies in
\* 0..len(turn_order)-1.
C29_CurrentCombatantDefined ==
    /\ ~get_current_combatant_raises
    /\ (~is_active \/ turn_order = <<>>) => get_current_combatant = None
    /\ (is_active /\ turn_order # <<>>) =>
          /\ 0 <= current_turn_index
          /\ current_turn_index < Len(turn_order)
          /\ get_current_combatant = turn_order[current_turn_index + 1]

\* C29 witness: the last combatant of a two-combatant order is up, in a round
\* that began with a wrap of the index.
C29_Witness ==
    /\ is_active
    /\ round_number >= 2
    /\ Len(turn_order) = 2
    /\ current_turn_index = 1
    /\ get_current_combatant = turn_order[2]

\* C30: every roster combatant satisfies 0 <= health <= max_health after any
\* sequence of attack and cast_spell operations with well-formed damage or
\* healing notations, including notations whose total is zero or negative.
C30_CombatantHealthInRange ==
    \A id \in 1..Len(heap) :
        /\ 0 <= heap[id].health
        /\ heap[id].health <= heap[id].max_health

\* C23: 0 <= health <= max_health holds for a Character in every reachable
\* state, the end-of-combat syncs from its encounters included.
C23_CharacterHealthInRange ==
    \A n \in CharacterNames :
        /\ 0 <= characters[n].health
        /\ characters[n].health <= characters[n].max_health

\* C28: while the encounter is Idle or Active, an attack, cast_spell or
\* next_turn call that does not end the combat leaves every Character record
\* as it was (health, conditions, temporary hit points).
C28_CombatLeavesCharacters ==
    [][(characters' = characters) \/
       ~((Idle \/ Active) /\ ~(is_active /\ ~is_active')
           /\ (AnyAttack \/ AnyCast \/ next_turn))]_vars

\* C28 witness: combat is going on, the combatant built from a character has
\* lost health and gained a condition, and the character has neither.
C28_Witness ==
    /\ is_active
    /\ \E id \in 1..Len(heap) :
          /\ heap[id].character \in CharacterNames
          /\ heap[id].health < characters[heap[id].character].health
          /\ heap[id].conditions # characters[heap[id].character].conditions

\* C22: for every amount >= 0, Character.take_damage consumes temporary hit
\* points first and never drives health below 0; the reported temp_hp_lost +
\* health_lost equals min(amount, temporary_hp before + health before); the
\* reported unconscious flag is true iff the new health is 0.
C22_TakeDamageContract ==
    [][\A n \in CharacterNames, amount \in Amounts :
          character_take_damage(n, amount) =>
              LET before == characters[n]
                  after  == characters'[n]
              IN  /\ result'.temp_hp_lost = Min(amount, before.temporary_hp)
                  /\ after.temporary_hp = before.temporary_hp - result'.temp_hp_lost
                  /\ after.health = before.health - result'.health_lost
                  /\ after.health >= 0
                  /\ result'.temp_hp_lost + result'.health_lost
                        = Min(amount, before.temporary_hp + before.health)
                  /\ result'.unconscious <=> (after.health = 0)]_vars

\* C22 witness: a hit went through the temporary hit points and took the
\* rest of the character's health.
C22_Witness ==
    \E n \in CharacterNames :
        /\ "temp_hp_lost" \in DOMAIN result
        /\ result.temp_hp_lost = 3
        /\ result.health_lost = 1
        /\ result.damage_taken = 5
        /\ result.unconscious
        /\ characters[n].health = 0
        /\ characters[n].temporary_hp = 0

\* C24: when gain_experience raises the level by k >= 1 levels, max_health
\* grows by k * max(1, 5 + constitution modifier) and health grows by the
\* same amount, for every constitution score.
C24_LevelUpGain ==
    [][\A n \in CharacterNames, xp \in XpAwards :
          (gain_experience(n, xp) /\ characters'[n].level > characters[n].level) =>
              LET before == characters[n]
                  after  == characters'[n]
                  k      == after.level - before.level
                  gain   == k * Max(1, 5 + get_modifier(before.constitution))
              IN  /\ after.max_health = before.max_health + gain
                  /\ after.health = before.health + gain]_vars

\* The last call raised ValueError.
Raised(r) == "raised" \in DOMAIN r

\* A returned roll dict holds count results, each in 1..sides, and their sum
\* plus the modifier as total.
RollOf(r, sides, count, modifier) ==
    /\ ~Raised(r)
    /\ Len(r.rolls) = count
    /\ \A i \in 1..Len(r.rolls) : 1 <= r.rolls[i] /\ r.rolls[i] <= sides
    /\ r.total = sum(r.rolls) + modifier
    /\ r.sides = sides /\ r.count = count /\ r.modifier = modifier

\* C26: roll(sides, count, modifier) fails with the InvalidDice error iff
\* sides < 1 or count < 1; otherwise it returns exactly count results, each
\* in 1..sides, with total = sum(results) + modifier.
C26_RollContract ==
    [][\A sides \in Sides, count \in Counts, modifier \in Modifiers :
          roll(sides, count, modifier) =>
              /\ (result' = InvalidDice) <=> (sides < 1 \/ count < 1)
              /\ (result' # InvalidDice) => RollOf(result', sides, count, modifier)]_vars

\* C26 witness: three two-sided dice came up 1, 2, 2 with modifier 3.
C26_Witness ==
    /\ ~Raised(result)
    /\ "rolls" \in DOMAIN result
    /\ result.rolls = <<1, 2, 2>>
    /\ result.sides = 2
    /\ result.modifier = 3
    /\ result.total = 8

\* A string with all its whitespace removed and its letters lower-cased.
WithoutWhitespace(s) ==
    LET Kept(ch) == ch \notin Whitespace
    IN  lower(SelectSeq(s, Kept))

\* A string without its leading and trailing whitespace and without any
\* space character, its letters lower-cased.
Trimmed(s) ==
    LET Solid == {i \in 1..Len(s) : s[i] \notin Whitespace}
        Kept(ch) == ch # " "
    IN  IF Solid = {} THEN <<>>
        ELSE LET first == CHOOSE i \in Solid : \A j \in Solid : i <= j
                 last  == CHOOSE i \in Solid : \A j \in Solid : j <= i
             IN  lower(SelectSeq(SubSeq(s, first, last), Kept))

\* The last call raised the invalid-notation error.
NotationError(r) == Raised(r) /\ r.message = "Invalid dice format"

\* C25 as stated: parse_and_roll(s) rejects with the invalid-notation error
\* exactly the inputs that do not match <count>d<sides>[(+|-)<modifier>]
\* after removing whitespace and lower-casing, and every matching input is
\* rolled: count results, each in 1..sides, total = sum(results) + modifier.
C25_ParseAndRollAsStated ==
    [][\A s \in DiceStrings :
          parse_and_roll(s) =>
              LET m == match_pattern(WithoutWhitespace(s))
              IN  /\ NotationError(result') <=> ~m.match
                  /\ m.match => RollOf(result', m.sides, m.count, m.modifier)]_vars

\* C25 amended: the inputs rejected with the invalid-notation error are
\* exactly those that do not match after removing leading and trailing
\* whitespace and every space character and lower-casing; a matching input
\* with count >= 1 and sides >= 1 is rolled as roll(sides, count, modifier):
\* count results, each in 1..sides, total = sum(results) + modifier, so
\* '2d6+3' totals in 5..15; a matching input with count or sides 0 fails with
\* the InvalidDice error of roll.
C25_ParseAndRollContract ==
    [][\A s \in DiceStrings :
          parse_and_roll(s) =>
              LET m == match_pattern(Trimmed(s))
              IN  /\ NotationError(result') <=> ~m.match
                  /\ (m.match /\ m.count >= 1 /\ m.sides >= 1) =>
                        RollOf(result', m.sides, m.count, m.modifier)
                  /\ (m.match /\ (m.count < 1 \/ m.sides < 1)) =>
                        result' = InvalidDice
                  /\ (s = <<"2", "d", "6", "+", "3">>) =>
                        /\ ~Raised(result')
                        /\ 5 <= result'.total /\ result'.total <= 15]_vars

\* C25 witness: '2d6+3' was rolled to its largest total.
C25_Witness ==
    /\ ~Raised(result)
    /\ "rolls" \in DOMAIN result
    /\ result.rolls = <<6, 6>>
    /\ result.modifier = 3
    /\ result.total = 15

\* The heap after the outcome entries are applied one after the other, each
\* to its own target: a damage entry through take_damage, a healing entry
\* through heal.
RECURSIVE AppliedInOrder(_, _)
AppliedInOrder(h, entries) ==
    IF entries = <<>> THEN h
    ELSE LET e == Head(entries)
             next == IF e.type = "damage"
                     THEN [h EXCEPT ![e.target] = take_damage(h[e.target], e.amount)]
                     ELSE [h EXCEPT ![e.target] = heal(h[e.target], e.amount)]
         IN  AppliedInOrder(next, Tail(entries))

\* The call returned a result dict with exactly one outcome entry and one
\* new log line per target, in target order, and the combatants are as the
\* entries applied in order leave them.
OnePerTarget(r, targets, effect) ==
    /\ "effects" \in DOMAIN r
    /\ Len(r.effects) = Len(targets)
    /\ Len(combat_log') = Len(combat_log) + Len(targets)
    /\ \A i \in 1..Len(targets) :
          /\ r.effects[i].target = targets[i]
          /\ r.effects[i].type = effect.type
          /\ r.effects[i].amount \in parse_and_roll_totals(effect.notation)
          /\ r.effects[i].target_health
                = AppliedInOrder(heap, SubSeq(r.effects, 1, i))[targets[i]].health
    /\ heap' = AppliedInOrder(heap, r.effects)

\* The call returned a result dict without outcome entries and changed
\* neither the log nor any combatant.
NothingApplied(r) ==
    /\ "effects" \in DOMAIN r
    /\ r.effects = <<>>
    /\ combat_log' = combat_log
    /\ heap' = heap

\* The call cast_spell(c, targets, effect) by a conscious caster has just
\* returned or raised.
CastBy(c, targets, effect) ==
    /\ ~cast_refused(c)
    /\ ("effects" \in DOMAIN result') => (result'.caster = c /\ result'.targets = targets)
    /\ cast_spell_result(c, targets, effect)

\* C27 as stated: cast_spell by a conscious caster with effect kind damage or
\* healing applies the effect to each target in target order, producing
\* exactly one outcome entry and one combat-log line per target; with any
\* other effect kind it produces no entry, no log line and no change to any
\* combatant.
C27_SpellPerTargetAsStated ==
    [][\A c \in 1..Len(heap), targets \in SpellTargetLists, effect \in Effects :
          CastBy(c, targets, effect) =>
              IF effect.type \in {"damage", "healing"}
              THEN OnePerTarget(result', targets, effect)
              ELSE NothingApplied(result')]_vars

\* C27 amended: the same, for damage and healing effects whose notation
\* parse_and_roll accepts.
C27_SpellPerTarget ==
    [][\A c \in 1..Len(heap), targets \in SpellTargetLists, effect \in Effects :
          CastBy(c, targets, effect) =>
              IF effect.type \in {"damage", "healing"}
              THEN ~parse_and_roll_raises(effect.notation) =>
                       OnePerTarget(result', targets, effect)
              ELSE NothingApplied(result')]_vars

\* C27 witness: a healing spell on two different targets rolled two
\* different totals, one entry each.
C27_Witness ==
    /\ "effects" \in DOMAIN result
    /\ Len(result.effects) = 2
    /\ result.effects[1].type = "healing"
    /\ result.effects[1].target # result.effects[2].target
    /\ result.effects[1].amount # result.effects[2].amount
    /\ Len(combat_log) >= 2

\* A handler that has passed the turn check and has not yet appended its DM
\* response and advanced the turn.
InFlight(h) == handlers[h].pc \in {"reply_roll", "reply_embed", "defer", "followup"}

\* Every player_action event of the log is followed, as far as the log goes,
\* by its dice_roll event when it carries a roll, and then by a dm_response.
ContiguousBlocks(log) ==
    \A i \in 1..Len(log) :
        log[i].event_type = "player_action" =>
            LET rolled == "dice_result" \in DOMAIN log[i].metadata
                j      == IF rolled THEN i + 2 ELSE i + 1
            IN  /\ (rolled /\ i + 1 <= Len(log)) => log[i + 1].event_type = "dice_roll"
                /\ (j <= Len(log)) => log[j].event_type = "dm_response"

\* C21: in one channel's session, under any interleaving of the handlers of
\* player messages and commands, at most one action is in flight, and the
\* events of each action form a contiguous block of the story log
\* (player_action, optional dice_roll, dm_response) into which no event of
\* another action is appended.
C21_OneActionInFlight ==
    /\ Cardinality({h \in 1..Len(handlers) : InFlight(h)}) <= 1
    /\ ContiguousBlocks(session.story_history)

\* ------------------------------------------------------- claims C31 to C40

\* C31: for every roster combatant in every reachable state, is_conscious is
\* true iff health > 0, and the "unconscious" condition is present iff
\* is_conscious is false; also right after add_player of a Character whose
\* health is 0.
C31_ConsciousIffHealthy ==
    \A i \in 1..Len(combatants) :
        LET c == heap[combatants[i]]
        IN  /\ c.is_conscious <=> (c.health > 0)
            /\ Contains(c.conditions, "unconscious") <=> ~c.is_conscious

\* the roster combatants that are conscious in heap h
ConsciousRoster(h) ==
    {combatants[i] : i \in {j \in 1..Len(combatants) : h[combatants[j]].is_conscious}}

\* the combatants that have a place in the turn order
InTurnOrder(order) == {order[i] : i \in 1..Len(order)}

\* C32: in an Active encounter, at the start of every round (turn index 0
\* right after a wrap-around) every conscious roster combatant is in the turn
\* order, a combatant healed above 0 after its removal included.
C32_ConsciousGetTurns ==
    [][(is_active /\ is_active' /\ round_number' = round_number + 1) =>
          /\ current_turn_index' = 0
          /\ ConsciousRoster(heap') \subseteq InTurnOrder(turn_order')]_vars

\* C33: whenever the encounter is Active, the combatant get_current_combatant
\* returns is conscious.
C33_CurrentIsConscious ==
    (is_active /\ turn_order # <<>> /\ ~get_current_combatant_raises) =>
        heap[get_current_combatant].is_conscious

\* C34: whenever the encounter is Active, the turn order is non-empty.
C34_ActiveHasTurnOrder == is_active => turn_order # <<>>

\* the nextTurn() calls left before the turn index wraps around
CallsToWrap == Len(turn_order) - current_turn_index

\* C35: if, in an Active encounter, every player-type or every enemy-type
\* combatant is unconscious and stays so, then after at most len(turn_order)
\* further next_turn calls the encounter is inactive: between one and
\* len(turn_order) calls are left before the wrap, each next_turn uses one of
\* them up or ends the combat, and no other operation adds to them.
C35_WipedSideEndsCombat ==
    [][(is_active /\ should_end_combat(combatants, heap)) =>
          /\ CallsToWrap >= 1
          /\ CallsToWrap <= Len(turn_order)
          /\ (is_active' /\ should_end_combat(combatants', heap')) =>
                /\ IF next_turn THEN CallsToWrap' = CallsToWrap - 1
                                ELSE CallsToWrap' <= CallsToWrap]_vars

\* the events of the durable record at session_file (none when there is no
\* JSON object there)
RecordHistory ==
    IF session_file.kind = "object" THEN session_file.data.story_history ELSE <<>>

\* C36: every durable session record is pair-complete: a player_action event
\* whose metadata carries a dice result is followed, in that record, by that
\* action's dice_roll event.
C36_RecordPairComplete ==
    \A i \in 1..Len(RecordHistory) :
        LET event == RecordHistory[i].fields
        IN  (event.event_type = "player_action" /\ "dice_result" \in DOMAIN event.metadata) =>
               /\ i < Len(RecordHistory)
               /\ RecordHistory[i + 1].fields.event_type = "dice_roll"
               /\ RecordHistory[i + 1].fields.metadata = event.metadata.dice_result

\* a save_session call that returns False
SaveFails == \E step \in SaveSteps : save_session_raises(step)

\* C37: if save_session fails, the record stored before at the session's path
\* is left intact: a later load_session still succeeds and returns the state
\* last saved successfully.
C37_FailedSaveKeepsRecord ==
    [][(SaveFails /\ load_succeeds(session_file)) =>
          /\ load_succeeds(session_file')
          /\ after_load_session(session, session_file')
               = after_load_session(session, session_file)]_vars

\* C38: for a session that starts fresh and is changed only through
\* add_story_event, add_player_action, add_dm_response, start_combat,
\* end_combat, save_session and load_session of its own records, turn_count
\* equals the number of events in the story log in every reachable state.
C38_TurnCountIsLogLength == session.turn_count = Len(session.story_history)

\* C38 witness: load_session (or save_session) has just returned True with a
\* record of three events that an autosave of this session wrote, and the
\* session holds those three events.
C38_Witness ==
    /\ result = "True"
    /\ session_file.kind = "object"
    /\ session_file.data.turn_count = 3
    /\ Len(session.story_history) = 3
    /\ session_file = saved_file(session)

\* C39: Character serialisation round-trips: for every reachable character
\* state c (wounded characters whose max_health is 10 or whose armor_class is
\* 10 included), Character.from_dict(c.to_dict()) has the same health,
\* max_health and armor_class as c.
C39_RoundTrip ==
    [][\A n \in CharacterNames :
          round_trip(n) =>
             /\ result'.health = characters[n].health
             /\ result'.max_health = characters[n].max_health
             /\ result'.armor_class = characters[n].armor_class]_vars

\* the events a step appends to the story log
NewEvents ==
    SubSeq(session'.story_history, Len(session.story_history) + 1,
           Len(session'.story_history))

\* the handlers that move in a step (the new handler of an arrival included)
Moving ==
    {h \in 1..Len(handlers') : h > Len(handlers) \/ handlers'[h] # handlers[h]}

\* C40: in a channel's turn queue, under any interleaving of concurrent
\* action handlers, an action is recorded only while its author is the
\* current player at the moment it is appended, and the turn index advances
\* by exactly one position per turn taken, by the handler of the player whose
\* turn it is, so that the turn passes to each queued player in order and no
\* player is skipped.
C40_TurnsInOrder ==
    [][/\ \A i \in 1..Len(NewEvents) :
             NewEvents[i].event_type = "player_action" =>
                /\ get_current_player(game) # "None"
                /\ \E action \in ActionTexts :
                      NewEvents[i].content = player_line(get_current_player(game), action)
       /\ game' # game =>
             /\ game'.turn_queue = game.turn_queue
             /\ game'.current_turn_index
                  = (game.current_turn_index + 1) % Len(game.turn_queue)
             /\ \A h \in Moving : handlers'[h].user = get_current_player(game)]_vars

====
